---- MODULE Spec2Model ----
(***************************************************************************)
(* Chunked subtitle translation pipeline of subtranslator:                 *)
(* translate_all_chunks fans one task per chunk out under an               *)
(* asyncio.TaskGroup, every attempt of _translate_single_chunk runs under  *)
(* the process-wide asyncio.Semaphore, configurable_retry bounds the       *)
(* attempts, and the callers reassemble after the orchestrator returned.   *)
(***************************************************************************)
EXTENDS Integers, Sequences, FiniteSets, TLC

\* ------------------------------------------------------------------ bounds
\* Largest number of parsed blocks of one document.
MaxBlocks == 3
\* Largest number of blocks of all documents in flight together.
MaxTotalBlocks == 4
\* The CHUNK_MAX_BLOCKS the model configures (Settings accepts > 0).
ChunkMaxBlocks == 2
\* Largest RETRY_MAX_ATTEMPTS the model configures (Settings accepts >= 0).
MaxRetrySetting == 2
\* Largest MAX_CONCURRENT_TRANSLATIONS the model configures (Settings: > 0).
MaxPermits == 2
\* Largest number of entries in one provider response.
MaxEntries == 2
\* The recorded job (TraceSpec): largest number of blocks of its file and
\* the CHUNK_MAX_BLOCKS it runs under.
TraceMaxBlocks == 2
TraceChunkBlocks == 1
\* The parser alone (ParseSpec): largest file and largest max_blocks.
MaxParsedBlocks == 7
MaxChunkSetting == 7
\* The reassembler alone (ReassembleSpec): largest document, and how often
\* reassemble_srt is called on it.
MaxReassembledBlocks == 2
MaxReassembleCalls == 2
\* Largest SESSION_FILE_LIMIT explored.
MaxFileLimit == 3
\* Most create_file_entry calls explored, and the largest count handed to an
\* update of the statistics.
MaxRequests == 2
MaxStat == 2

\* The documents translated at the same time through the one process: d1 is
\* a job of /translate/async (process_translation_async, a task that
\* cancel_translation can cancel), d2 a request of /translate (translate_srt).
Docs == {"d1", "d2"}
Jobs == {"d1"}

None == "None"

\* ------------------------------------------------------------ pure helpers
Max(a, b) == IF a >= b THEN a ELSE b

RECURSIVE SumSeq(_)
SumSeq(s) == IF s = <<>> THEN 0 ELSE Head(s) + SumSeq(Tail(s))

\* math.ceil(n / m) for n >= 0, m >= 1
Ceil(n, m) == (n + m - 1) \div m

\* "\n".join(lines)
RECURSIVE JoinLines(_)
JoinLines(lines) ==
    IF lines = <<>> THEN ""
    ELSE IF Len(lines) = 1 THEN Head(lines)
    ELSE Head(lines) \o "\n" \o JoinLines(Tail(lines))

\* SubtitleBlock(index, content, translated_content=None); the source file's
\* own numbering starts at 1.
SubtitleBlock(k) ==
    [index |-> k, start |-> (k - 1) * 2000, end |-> (k - 1) * 2000 + 1500,
     content |-> IF k = 1 THEN "Hello" ELSE IF k = 2 THEN "World\nagain" ELSE "Bye",
     translated_content |-> None]

\* Variant: every slice runs one block into the next one.
ChunkBlocks_Overlap(blocks, max_blocks) ==
    [i \in 1..Ceil(Len(blocks), max_blocks) |->
        SubSeq(blocks, (i - 1) * max_blocks + 1,
               IF i * max_blocks + 1 <= Len(blocks) THEN i * max_blocks + 1 ELSE Len(blocks))]

\* Variant: the number of chunks is rounded down.
ChunkBlocks_Floor(blocks, max_blocks) ==
    [i \in 1..(Len(blocks) \div max_blocks) |->
        SubSeq(blocks, (i - 1) * max_blocks + 1, i * max_blocks)]

\* Variant: the number of chunks is the quotient plus one.
ChunkBlocks_ExtraChunk(blocks, max_blocks) ==
    [i \in 1..((Len(blocks) \div max_blocks) + 1) |->
        SubSeq(blocks, (i - 1) * max_blocks + 1,
               IF i * max_blocks <= Len(blocks) THEN i * max_blocks ELSE Len(blocks))]

\* parse_srt's chunking: num_chunks = ceil(len / max_blocks) slices of
\* max_blocks consecutive blocks (the last slice is cut at the end).
ChunkBlocks(blocks, max_blocks) ==
    [i \in 1..Ceil(Len(blocks), max_blocks) |->
        SubSeq(blocks, (i - 1) * max_blocks + 1,
               IF i * max_blocks <= Len(blocks) THEN i * max_blocks ELSE Len(blocks))]

ParsedDocument(n, max_blocks) ==
    ChunkBlocks([k \in 1..n |-> SubtitleBlock(k)], max_blocks)

\* ------------------------------------------------------------------ state
VARIABLES
    settings,   \* Settings (frozen): RETRY_MAX_ATTEMPTS, MAX_CONCURRENT_TRANSLATIONS, ...
    semaphore,  \* free slots (_value) of the shared asyncio.Semaphore
    sub,        \* sub[d]: the document, a sequence of chunks of SubtitleBlocks
    doc,        \* doc[d]: the request working on d (position, speed_mode, result)
    task,       \* task[d][i]: the TaskGroup task of chunk i of d
    upload,     \* upload[d]: the blocks srt.parse found in the file of d
    context,    \* context[d]: detect_context of d, its attempts and the string it returned
    prompt,     \* prompt[d]: the system_prompt translate_all_chunks built for d
    calls,      \* the generate_content requests sent for chunks
    received,   \* received[d][i]: what the last response to chunk i of d was
    writes,     \* writes[d][i][b]: the assignments made to translated_content of block b of chunk i
    request,    \* request[d]: the upload of d (file name, target language, file content)
    output,     \* output[d]: what the calls of reassemble_srt on d returned, in order
    limiter,    \* the RateLimiter (file_limit, session_counts) and how its last call ended
    backend     \* the statistics store, the translation jobs and the temporary directories

vars == <<settings, semaphore, sub, doc, task>>

\* What TraceSpec follows on top of the pipeline: the steps before
\* translate_all_chunks and a record of requests, responses and assignments.
observed == <<upload, context, prompt, calls, received, writes>>

\* The request as it came in, the reassembled result, the rate limiter and
\* the stores behind the routes.
frontend == <<request, output, limiter, backend>>

allvars == <<settings, semaphore, sub, doc, task, upload, context, prompt, calls, received, writes,
             request, output, limiter, backend>>

\* ------------------------------------------------------------- task state
ChunkIds(d) == DOMAIN sub[d]

\* A task is finished when the wrapper returned (done), CancelledError left it
\* (cancelled) or another exception left it (raised).
Terminal(t) == t.pc \in {"done", "cancelled", "raised"}

\* A task holds a limiter slot exactly while it is inside `async with semaphore`.
InGuardedSection(t) == t.pc = "working"

NewTask == [pc |-> "created", current_attempt |-> 0, must_cancel |-> FALSE, result |-> None]

\* What MockProvider / GeminiProvider hand to translate_all_chunks.
ProviderSpeedMode(provider, speed_mode) ==
    IF provider = "mock" THEN "mock_" \o speed_mode ELSE speed_mode

ProviderClient(provider) == IF provider = "mock" THEN None ELSE "genai_client"

\* ------------------------------------------------- one attempt, by its code
\* Variant: the copy is made in place, over content.
MockTranslate_InPlace(chunk) ==
    [b \in DOMAIN chunk |-> [chunk[b] EXCEPT !.content = "Bonjour",
                                              !.translated_content = chunk[b].content]]

\* Mock branch of _translate_single_chunk: copy content to translated_content.
MockTranslate(chunk) ==
    [b \in DOMAIN chunk |-> [chunk[b] EXCEPT !.translated_content = chunk[b].content]]

\* Variant: an entry with an index outside the chunk is skipped.
RECURSIVE ApplyEntries_SkipBadIndex(_, _)
ApplyEntries_SkipBadIndex(chunk, entries) ==
    IF entries = <<>> THEN [chunk |-> chunk, ok |-> TRUE]
    ELSE LET block_data == Head(entries)
             block_index == block_data.index
             translated_content == JoinLines(block_data.translated_lines)
         IN IF 0 <= block_index /\ block_index < Len(chunk)
            THEN ApplyEntries_SkipBadIndex(
                    [chunk EXCEPT ![block_index + 1].translated_content = translated_content],
                    Tail(entries))
            ELSE ApplyEntries_SkipBadIndex(chunk, Tail(entries))

\* The response loop of _translate_single_chunk: entries are applied in
\* order, each written at once; an index outside 0..len(chunk)-1 raises
\* ChunkTranslationError and leaves what was written before it.
RECURSIVE ApplyEntries(_, _)
ApplyEntries(chunk, entries) ==
    IF entries = <<>> THEN [chunk |-> chunk, ok |-> TRUE]
    ELSE LET block_data == Head(entries)
             block_index == block_data.index
             translated_content == JoinLines(block_data.translated_lines)
         IN IF 0 <= block_index /\ block_index < Len(chunk)
            THEN ApplyEntries(
                    [chunk EXCEPT ![block_index + 1].translated_content = translated_content],
                    Tail(entries))
            ELSE [chunk |-> chunk, ok |-> FALSE]

\* Variant: the final failure is re-raised out of the wrapper.
AfterFailedAttempt_Reraise(t, max_attempts) ==
    IF t.current_attempt >= max_attempts
    THEN [t EXCEPT !.pc = "raised"]
    ELSE [t EXCEPT !.pc = "sleeping"]

\* Variant: the wrapper reports the attempts instead of the retries.
AfterFailedAttempt_ReportAttempts(t, max_attempts) ==
    IF t.current_attempt >= max_attempts
    THEN [t EXCEPT !.pc = "done", !.result = <<t.current_attempt, TRUE>>]
    ELSE [t EXCEPT !.pc = "sleeping"]

\* configurable_retry after an attempt raised an Exception: tenacity stops
\* when attempt_number >= max_attempts (reraise, the wrapper reports
\* failed = True), otherwise it waits the fixed delay and tries again.
AfterFailedAttempt(t, max_attempts) ==
    IF t.current_attempt >= max_attempts
    THEN [t EXCEPT !.pc = "done",
                   !.result = <<Max(0, t.current_attempt - 1), TRUE>>]
    ELSE [t EXCEPT !.pc = "sleeping"]

\* configurable_retry after an attempt returned: failed = False.
AfterSuccessfulAttempt(t) ==
    [t EXCEPT !.pc = "done", !.result = <<Max(0, t.current_attempt - 1), FALSE>>]

\* Variant: the guarded section is entered without taking a slot.
EnterGuardedSection_NoAcquire(t, chunk, speed_mode, genai_client, max_attempts) ==
    IF speed_mode = "mock"
    THEN [task |-> [t EXCEPT !.pc = "working"], chunk |-> MockTranslate(chunk), held |-> 0]
    ELSE IF genai_client = None
    THEN [task |-> AfterFailedAttempt(t, max_attempts), chunk |-> chunk, held |-> 0]
    ELSE [task |-> [t EXCEPT !.pc = "working"], chunk |-> chunk, held |-> 0]

\* _translate_single_chunk from the moment the slot is held up to its first
\* suspension: the mock branch writes every block and sleeps; the live
\* branch awaits generate_content, and with no client (MockProvider passes
\* client=None) `genai_client.aio` raises at once, which leaves the
\* `async with` and gives the slot back in the same step.
EnterGuardedSection(t, chunk, speed_mode, genai_client, max_attempts) ==
    IF speed_mode = "mock"
    THEN [task |-> [t EXCEPT !.pc = "working"], chunk |-> MockTranslate(chunk), held |-> 1]
    ELSE IF genai_client = None
    THEN [task |-> AfterFailedAttempt(t, max_attempts), chunk |-> chunk, held |-> 0]
    ELSE [task |-> [t EXCEPT !.pc = "working"], chunk |-> chunk, held |-> 1]

\* What the live provider call can come back with: an exception, a text that
\* TranslatedChunk.model_validate_json rejects, or a validated list of
\* {index, translated_lines} entries.
TranslatedLines == <<"Bonjour", "le monde">>

RECURSIVE SeqsUpTo(_, _)
SeqsUpTo(S, n) ==
    IF n = 0 THEN {<<>>}
    ELSE SeqsUpTo(S, n - 1) \cup
         {Append(q, x) : q \in {r \in SeqsUpTo(S, n - 1) : Len(r) = n - 1}, x \in S}

TranslatedBlock(len) ==
    [index : (0 - 1)..len, translated_lines : {TranslatedLines}]

Responses(len) ==
    {[kind |-> "error", entries |-> <<>>], [kind |-> "invalid", entries |-> <<>>]}
    \cup {[kind |-> "validated", entries |-> e] : e \in SeqsUpTo(TranslatedBlock(len), MaxEntries)}

\* Variant: the loop adds each chunk's attempts instead of its retries.
RECURSIVE AggregateResults_CountAttempts(_, _)
AggregateResults_CountAttempts(tasks, acc) ==
    IF tasks = <<>> THEN [error |-> FALSE, stats |-> acc]
    ELSE LET t == Head(tasks)
         IN IF t.pc = "done"
            THEN AggregateResults_CountAttempts(Tail(tasks),
                    <<acc[1] + t.current_attempt, acc[2] + (IF t.result[2] THEN 1 ELSE 0)>>)
            ELSE [error |-> TRUE, stats |-> acc]

\* Variant: the loop counts a chunk as failed when it needed a retry.
RECURSIVE AggregateResults_CountRetried(_, _)
AggregateResults_CountRetried(tasks, acc) ==
    IF tasks = <<>> THEN [error |-> FALSE, stats |-> acc]
    ELSE LET t == Head(tasks)
         IN IF t.pc = "done"
            THEN AggregateResults_CountRetried(Tail(tasks),
                    <<acc[1] + t.result[1], acc[2] + (IF t.result[1] > 0 THEN 1 ELSE 0)>>)
            ELSE [error |-> TRUE, stats |-> acc]

\* The responses for each chunk length the parser can produce.
ResponsesFor == [len \in 1..ChunkMaxBlocks |-> Responses(len)]

\* What one response does to the chunk: an exception or a rejected text
\* changes nothing and fails the attempt; validated entries are applied.
ResponseOutcome(chunk, resp) ==
    IF resp.kind = "validated"
    THEN ApplyEntries(chunk, resp.entries)
    ELSE [chunk |-> chunk, ok |-> FALSE]

\* The aggregation loop of translate_all_chunks over the tasks, in order:
\* a done task adds its (retries, failed_flag); for a task whose result()
\* raises, and for a task that is not done, the handler calls the module's
\* undefined name `logger`, so the loop ends in a NameError.
RECURSIVE AggregateResults(_, _)
AggregateResults(tasks, acc) ==
    IF tasks = <<>> THEN [error |-> FALSE, stats |-> acc]
    ELSE LET t == Head(tasks)
         IN IF t.pc = "done"
            THEN AggregateResults(Tail(tasks),
                    <<acc[1] + t.result[1], acc[2] + (IF t.result[2] THEN 1 ELSE 0)>>)
            ELSE [error |-> TRUE, stats |-> acc]

\* TaskGroup._on_task_done: a child that ended with an exception other than
\* CancelledError makes the group abort, i.e. cancel every child not done.
OnTaskDone(tasks) ==
    IF \E i \in DOMAIN tasks : tasks[i].pc = "raised"
    THEN [i \in DOMAIN tasks |->
            IF Terminal(tasks[i]) THEN tasks[i] ELSE [tasks[i] EXCEPT !.must_cancel = TRUE]]
    ELSE tasks

\* Variant: the group is left as soon as one task finished.
TaskGroupJoined_Any(tasks) == \E i \in DOMAIN tasks : Terminal(tasks[i])

\* TaskGroup.__aexit__ leaves only when no task of the group is left running.
TaskGroupJoined(tasks) == \A i \in DOMAIN tasks : Terminal(tasks[i])

\* --------------------------------------------------------------- Init
\* "normal" runs the same code as "fast" but for the model name it sends.
SpeedModes == {"mock", "fast"}

\* detect_context's mock branch.
MockContext == "Mock Context Detected"

\* Spec starts where parse_srt and detect_context have returned and follows
\* translate_all_chunks only: it keeps no record of requests, responses and
\* assignments (TraceSpec does).
\* An upload the routes accept: an .srt name, a configured language, a file
\* with subtitles in it.
ValidRequest == [filename |-> "movie.srt", target_lang |-> "French", content |-> "subtitles"]

\* Nothing reassembled yet, and a RateLimiter no session has called.
Sessions == {"s1", "s2"}

RateLimiter(file_limit) ==
    [file_limit |-> file_limit, keys |-> {}, counts |-> [s \in Sessions |-> 0],
     instance |-> 1, passed |-> file_limit, inner |-> <<>>,
     op |-> None, session |-> None, status |-> None, returned |-> 0,
     reset |-> {}, before |-> [s \in Sessions |-> 0],
     checks |-> [s \in Sessions |-> 0],
     accepted |-> [s \in Sessions |-> 0]]

\* AppStatsStore as constructed (core/stats.py 39-43). counter is the number
\* the next request id gets; keys and entry are the dictionary _file_stats
\* (entry[k] is read only for k in keys); total is _total_stats. issued lists
\* the ids create_file_entry returned; parsing_calls and translation_calls
\* hold the ids that were handed to the two updates.
RequestIds == 1..MaxRequests

NoFileStats ==
    [total_blocks |-> 0, total_chunks |-> 0, translation_failed_attempts |-> 0,
     chunks_with_failures |-> 0, status |-> None, ended |-> FALSE]

AppStatsStore ==
    [counter |-> 1, keys |-> {}, entry |-> [k \in RequestIds |-> NoFileStats],
     total |-> [files |-> 0, blocks |-> 0, chunks |-> 0, failed_attempts |-> 0,
                chunks_with_failures |-> 0],
     issued |-> <<>>, parsing_calls |-> {}, translation_calls |-> {}]

\* The requests being served: worker w is the coroutine of the w-th request,
\* process_translation_async of a job ("async") or translate_srt ("sync").
\* File names are sequences of pieces, so that "mov.srt" is <<"mov", ".srt">>
\* and "movie.srt" is <<"mov", "ie", ".srt">>.
WorkerIds == RequestIds

NoJob == [filename |-> <<>>, target_lang |-> None, status |-> None, request_id |-> 0]

NoWorker == [kind |-> None, pc |-> "none", must_cancel |-> FALSE, request_id |-> 0,
             status |-> "failed"]

NoResponse == [route |-> None, job |-> 0, code |-> 0, owner |-> 0]

\* translation_jobs (job_keys, job), the coroutines (work), the temporary
\* directories that hold an output file (dirs) and what the last call of a
\* job route answered (response).
NoBackend ==
    [stats |-> AppStatsStore,
     job_keys |-> {}, job |-> [w \in WorkerIds |-> NoJob],
     work |-> [w \in WorkerIds |-> NoWorker],
     dirs |-> {}, response |-> NoResponse]

NoFrontend ==
    /\ output = [d \in Docs |-> <<>>]
    /\ limiter = RateLimiter(1)
    /\ backend = NoBackend

NoRecord ==
    /\ request = [d \in Docs |-> ValidRequest]
    /\ NoFrontend
    /\ context = [d \in Docs |-> [attempt |-> 1, value |-> MockContext]]
    /\ prompt = [d \in Docs |-> <<>>]
    /\ calls = {}
    /\ received = [d \in Docs |-> <<>>]
    /\ writes = [d \in Docs |-> <<>>]

Init ==
    /\ settings \in [RETRY_MAX_ATTEMPTS : 0..MaxRetrySetting,
                     MAX_CONCURRENT_TRANSLATIONS : {1, MaxPermits},
                     CHUNK_MAX_BLOCKS : {ChunkMaxBlocks},
                     AI_PROVIDER : {"mock", "google-gemini"}]
    /\ semaphore = settings.MAX_CONCURRENT_TRANSLATIONS
    /\ \E n \in [Docs -> 1..MaxBlocks] :
         /\ SumSeq([k \in 1..2 |-> IF k = 1 THEN n["d1"] ELSE n["d2"]]) <= MaxTotalBlocks
         /\ sub = [d \in Docs |-> ParsedDocument(n[d], settings.CHUNK_MAX_BLOCKS)]
         /\ upload = [d \in Docs |-> [k \in 1..n[d] |-> SubtitleBlock(k)]]
    /\ doc \in [Docs -> [pc : {"parsed"}, speed_mode : SpeedModes,
                         cancelling : {FALSE}, result : {None}]]
    /\ task = [d \in Docs |-> <<>>]
    /\ NoRecord

\* ------------------------------------------------------------- actions
ModeOf(d) == ProviderSpeedMode(settings.AI_PROVIDER, doc[d].speed_mode)
ClientOf == ProviderClient(settings.AI_PROVIDER)

\* translate_all_chunks up to the TaskGroup's wait: one task per chunk.
StartTranslation(d) ==
    /\ doc[d].pc = "parsed"
    /\ doc' = [doc EXCEPT ![d].pc = "translating"]
    /\ task' = [task EXCEPT ![d] = [i \in ChunkIds(d) |-> NewTask]]
    /\ UNCHANGED <<settings, semaphore, sub>>

\* A child task can take its next ordinary step.
Running(d, i) ==
    /\ i \in DOMAIN task[d]
    /\ ~Terminal(task[d][i])
    /\ ~task[d][i].must_cancel

\* retry_target: current_attempt += 1, then `async with semaphore`.
BeginAttempt(d, i) ==
    /\ Running(d, i)
    /\ task[d][i].pc \in {"created", "sleeping"}
    /\ LET t == [task[d][i] EXCEPT !.current_attempt = @ + 1]
       IN IF semaphore > 0
          THEN LET r == EnterGuardedSection(t, sub[d][i], ModeOf(d), ClientOf,
                                            settings.RETRY_MAX_ATTEMPTS)
               IN /\ task' = [task EXCEPT ![d] = OnTaskDone([@ EXCEPT ![i] = r.task])]
                  /\ sub' = [sub EXCEPT ![d][i] = r.chunk]
                  /\ semaphore' = semaphore - r.held
          ELSE /\ task' = [task EXCEPT ![d][i] = [t EXCEPT !.pc = "acquiring"]]
               /\ UNCHANGED <<sub, semaphore>>
    /\ UNCHANGED <<settings, doc>>

\* A task waiting in semaphore.acquire() is given a freed slot.
AcquireSlot(d, i) ==
    /\ Running(d, i)
    /\ task[d][i].pc = "acquiring"
    /\ semaphore > 0
    /\ LET r == EnterGuardedSection(task[d][i], sub[d][i], ModeOf(d), ClientOf,
                                    settings.RETRY_MAX_ATTEMPTS)
       IN /\ task' = [task EXCEPT ![d] = OnTaskDone([@ EXCEPT ![i] = r.task])]
          /\ sub' = [sub EXCEPT ![d][i] = r.chunk]
          /\ semaphore' = semaphore - r.held
    /\ UNCHANGED <<settings, doc>>

\* Variant: the mock attempt returns without giving its slot back.
MockSleepDone_KeepsSlot(d, i) ==
    /\ Running(d, i)
    /\ task[d][i].pc = "working"
    /\ ModeOf(d) = "mock"
    /\ task' = [task EXCEPT ![d][i] = AfterSuccessfulAttempt(task[d][i])]
    /\ UNCHANGED <<settings, doc, sub, semaphore>>

\* The mock branch's asyncio.sleep(0.1) ends: the attempt returns.
MockSleepDone(d, i) ==
    /\ Running(d, i)
    /\ task[d][i].pc = "working"
    /\ ModeOf(d) = "mock"
    /\ task' = [task EXCEPT ![d][i] = AfterSuccessfulAttempt(task[d][i])]
    /\ semaphore' = semaphore + 1
    /\ UNCHANGED <<settings, doc, sub>>

\* Variant: a failed attempt keeps its slot through the retry delay.
ProviderResponds_KeepsSlot(d, i) ==
    /\ Running(d, i)
    /\ task[d][i].pc = "working"
    /\ ModeOf(d) # "mock"
    /\ \E r \in {ResponseOutcome(sub[d][i], resp) : resp \in ResponsesFor[Len(sub[d][i])]} :
            /\ sub' = [sub EXCEPT ![d][i] = r.chunk]
            /\ task' = [task EXCEPT ![d] = OnTaskDone([@ EXCEPT ![i] =
                          IF r.ok THEN AfterSuccessfulAttempt(task[d][i])
                          ELSE AfterFailedAttempt(task[d][i], settings.RETRY_MAX_ATTEMPTS)])]
            /\ semaphore' = IF r.ok \/ task'[d][i].pc # "sleeping"
                            THEN semaphore + 1 ELSE semaphore
    /\ UNCHANGED <<settings, doc>>

\* generate_content comes back; the response is validated and applied.
ProviderResponds(d, i) ==
    /\ Running(d, i)
    /\ task[d][i].pc = "working"
    /\ ModeOf(d) # "mock"
    /\ \E r \in {ResponseOutcome(sub[d][i], resp) : resp \in ResponsesFor[Len(sub[d][i])]} :
            /\ sub' = [sub EXCEPT ![d][i] = r.chunk]
            /\ task' = [task EXCEPT ![d] = OnTaskDone([@ EXCEPT ![i] =
                          IF r.ok THEN AfterSuccessfulAttempt(task[d][i])
                          ELSE AfterFailedAttempt(task[d][i], settings.RETRY_MAX_ATTEMPTS)])]
    /\ semaphore' = semaphore + 1
    /\ UNCHANGED <<settings, doc>>

\* cancel_translation's task.cancel() on the job awaiting translate_all_chunks:
\* the wait inside TaskGroup.__aexit__ is cancelled and the job's wake-up is
\* queued behind the steps that were already due. The children are not
\* touched yet.
CancelDocument(d) ==
    /\ d \in Jobs
    /\ doc[d].pc = "translating"
    /\ ~doc[d].cancelling
    /\ doc' = [doc EXCEPT ![d].cancelling = TRUE]
    /\ UNCHANGED <<settings, semaphore, sub, task>>

\* The job wakes up with the CancelledError inside TaskGroup.__aexit__:
\* _abort() cancels every child that is not done, then the group waits for
\* them.
TaskGroupAbort(d) ==
    /\ doc[d].pc = "translating"
    /\ doc[d].cancelling
    /\ doc' = [doc EXCEPT ![d].pc = "aborting"]
    /\ task' = [task EXCEPT ![d] =
                  [i \in DOMAIN task[d] |->
                     IF Terminal(task[d][i]) THEN task[d][i]
                     ELSE [task[d][i] EXCEPT !.must_cancel = TRUE]]]
    /\ UNCHANGED <<settings, semaphore, sub>>

\* Variant: a cancelled attempt keeps its slot.
TaskCancelled_NoRelease(d, i) ==
    /\ i \in DOMAIN task[d]
    /\ ~Terminal(task[d][i])
    /\ task[d][i].must_cancel
    /\ task' = [task EXCEPT ![d][i] = [@ EXCEPT !.pc = "cancelled", !.must_cancel = FALSE]]
    /\ UNCHANGED <<settings, doc, sub, semaphore>>

\* Variant: the retry wrapper treats the CancelledError as a failed attempt.
TaskCancelled_Retried(d, i) ==
    /\ i \in DOMAIN task[d]
    /\ ~Terminal(task[d][i])
    /\ task[d][i].must_cancel
    /\ semaphore' = IF InGuardedSection(task[d][i]) THEN semaphore + 1 ELSE semaphore
    /\ task' = [task EXCEPT ![d][i] =
                  IF task[d][i].current_attempt >= 1
                  THEN [AfterFailedAttempt(task[d][i], settings.RETRY_MAX_ATTEMPTS)
                            EXCEPT !.must_cancel = FALSE]
                  ELSE [@ EXCEPT !.pc = "cancelled", !.must_cancel = FALSE]]
    /\ UNCHANGED <<settings, doc, sub>>

\* CancelledError is thrown into a child at its await: `async with` releases
\* a held slot, retry_target and the wrapper re-raise.
TaskCancelled(d, i) ==
    /\ i \in DOMAIN task[d]
    /\ ~Terminal(task[d][i])
    /\ task[d][i].must_cancel
    /\ semaphore' = IF InGuardedSection(task[d][i]) THEN semaphore + 1 ELSE semaphore
    /\ task' = [task EXCEPT ![d][i] = [@ EXCEPT !.pc = "cancelled", !.must_cancel = FALSE]]
    /\ UNCHANGED <<settings, doc, sub>>

\* The TaskGroup is left: translate_all_chunks aggregates and returns its
\* statistics, or re-raises the CancelledError of a cancelled caller, or ends
\* in the aggregation loop's error.
TaskGroupExit(d) ==
    /\ \/ doc[d].pc = "translating" /\ ~doc[d].cancelling
       \/ doc[d].pc = "aborting"
    /\ TaskGroupJoined(task[d])
    /\ LET agg == AggregateResults(task[d], <<0, 0>>)
       IN doc' = [doc EXCEPT ![d] =
                 IF doc[d].cancelling THEN [@ EXCEPT !.pc = "cancelled"]
                 ELSE IF agg.error THEN [@ EXCEPT !.pc = "raised"]
                 ELSE [@ EXCEPT !.pc = "returned", !.result = agg.stats]]
    /\ UNCHANGED <<settings, semaphore, sub, task>>

\* The caller goes on to reassemble_srt.
Reassemble(d) ==
    /\ doc[d].pc = "returned"
    /\ doc' = [doc EXCEPT ![d].pc = "reassembled"]
    /\ UNCHANGED <<settings, semaphore, sub, task>>

Next ==
    \E d \in Docs :
        \/ StartTranslation(d) /\ UNCHANGED <<observed, frontend>>
        \/ CancelDocument(d) /\ UNCHANGED <<observed, frontend>>
        \/ TaskGroupAbort(d) /\ UNCHANGED <<observed, frontend>>
        \/ TaskGroupExit(d) /\ UNCHANGED <<observed, frontend>>
        \/ Reassemble(d) /\ UNCHANGED <<observed, frontend>>
        \/ \E i \in 1..MaxBlocks :
              \/ BeginAttempt(d, i) /\ UNCHANGED <<observed, frontend>>
              \/ AcquireSlot(d, i) /\ UNCHANGED <<observed, frontend>>
              \/ MockSleepDone(d, i) /\ UNCHANGED <<observed, frontend>>
              \/ ProviderResponds(d, i) /\ UNCHANGED <<observed, frontend>>
              \/ TaskCancelled(d, i) /\ UNCHANGED <<observed, frontend>>

Spec == Init /\ [][Next]_allvars

\* ------------------------------------------------- the recorded pipeline
\* TraceSpec follows one job from the upload: parse_srt, detect_context,
\* translate_all_chunks (the actions above) and reassembly, and records every
\* request, response and assignment. The other request is not scheduled.

\* What detect_context can come back with for one attempt: a string, or
\* Failed for an exception. MockProvider.detect_context only sleeps; the
\* detector's mock branch returns its fixed string; the live branch reads
\* sub[0] (an IndexError on a document without chunks) and awaits the
\* provider, which answers or raises.
Failed == "Failed"

LiveContexts == {"This is a subtitle for a movie about a heist."}

DetectOutcomes(provider, speed_mode, document) ==
    IF provider = "mock" THEN {"Mock Context Detected (" \o speed_mode \o " mode)"}
    ELSE IF speed_mode = "mock" THEN {MockContext}
    ELSE IF speed_mode \notin {"fast", "normal"} THEN {Failed}
    ELSE IF document = <<>> THEN {Failed}
    ELSE LiveContexts \cup {Failed}

\* Variant: the prompt is built without the context.
SystemPrompt_NoContext(ctx) ==
    <<"You're a video subtitle translator. ", "",
      " I'll give you content of srt subtitle blocks, including its index.">>

\* translate_all_chunks' system_prompt: the context between fixed texts.
SystemPrompt(ctx) ==
    <<"You're a video subtitle translator. ", ctx,
      " I'll give you content of srt subtitle blocks, including its index.">>

\* The response loop stops at the first index outside 0..len-1: the entries
\* before it are the ones assigned.
RECURSIVE AssignedEntries(_, _)
AssignedEntries(entries, len) ==
    IF entries = <<>> THEN <<>>
    ELSE IF 0 <= Head(entries).index /\ Head(entries).index < len
    THEN <<Head(entries)>> \o AssignedEntries(Tail(entries), len)
    ELSE <<>>

\* The assignments among `assigned` to position b (1-based) of a chunk.
AssignmentsTo(assigned, b) ==
    Cardinality({k \in DOMAIN assigned : assigned[k].index + 1 = b})

\* The record counts the assignments to a block as 0, 1 or "more than one".
Counted(n) == IF n >= 2 THEN 2 ELSE n

\* A response that is not schema-valid (undecodable, a required field
\* missing) or that names a position outside the chunk.
Malformed(resp, len) ==
    \/ resp.kind = "invalid"
    \/ /\ resp.kind = "validated"
       /\ \E k \in DOMAIN resp.entries :
             resp.entries[k].index < 0 \/ resp.entries[k].index >= len

\* What the record keeps of a response: the call raised, or the response
\* was malformed, or it was well-formed.
ResponseClass(resp, len) ==
    IF resp.kind = "error" THEN "error"
    ELSE IF Malformed(resp, len) THEN "malformed" ELSE "wellformed"

TraceInit ==
    /\ settings \in [RETRY_MAX_ATTEMPTS : 0..MaxRetrySetting,
                     MAX_CONCURRENT_TRANSLATIONS : {1, MaxPermits},
                     CHUNK_MAX_BLOCKS : {TraceChunkBlocks},
                     AI_PROVIDER : {"mock", "google-gemini"}]
    /\ semaphore = settings.MAX_CONCURRENT_TRANSLATIONS
    /\ \E n \in 0..TraceMaxBlocks :
         upload = [d \in Docs |-> IF d \in Jobs THEN [k \in 1..n |-> SubtitleBlock(k)]
                                  ELSE <<SubtitleBlock(1)>>]
    /\ sub = [d \in Docs |-> <<>>]
    /\ \E m \in SpeedModes :
         doc = [d \in Docs |-> [pc |-> "uploaded", speed_mode |-> m,
                                cancelling |-> FALSE, result |-> None]]
    /\ task = [d \in Docs |-> <<>>]
    /\ context = [d \in Docs |-> [attempt |-> 0, value |-> None]]
    /\ prompt = [d \in Docs |-> <<>>]
    /\ calls = {}
    /\ received = [d \in Docs |-> <<>>]
    /\ writes = [d \in Docs |-> <<>>]
    /\ request = [d \in Docs |-> [ValidRequest EXCEPT
                     !.content = IF upload[d] = <<>> THEN "blank" ELSE "subtitles"]]
    /\ NoFrontend

\* The file names of the model and the ones that pass
\* filename.lower().endswith('.srt').
FileNames == {"movie.srt", "MOVIE.SRT", "movie.txt", ""}
SrtNames == {"movie.srt", "MOVIE.SRT"}

\* What a file can hold: no byte at all, more than MAX_FILE_SIZE_BYTES,
\* white space only, text srt.parse raises on, or subtitles.
FileContents == {"none", "oversized", "blank", "garbage", "subtitles"}

\* parse_srt(file, max_blocks): the checks on name and size, srt.parse
\* (blocks is what it finds in the content), the early return for a file
\* without subtitles, and the chunking.
ParseResult(file, blocks, max_blocks) ==
    IF file.filename \notin SrtNames THEN [error |-> "ValidationError", chunks |-> <<>>]
    ELSE IF file.content = "oversized" THEN [error |-> "ValidationError", chunks |-> <<>>]
    ELSE IF file.content = "none" THEN [error |-> "ValidationError", chunks |-> <<>>]
    ELSE IF file.content = "garbage" THEN [error |-> "ParsingError", chunks |-> <<>>]
    ELSE IF blocks = <<>> THEN [error |-> None, chunks |-> <<>>]
    ELSE [error |-> None, chunks |-> ChunkBlocks(blocks, max_blocks)]

\* The caller's `await parse_srt(...)`: the chunks become the document, or
\* the error ends the request.
ParseSrt(d) ==
    /\ doc[d].pc = "uploaded"
    /\ LET r == ParseResult(request[d], upload[d], settings.CHUNK_MAX_BLOCKS)
       IN IF r.error # None
          THEN /\ doc' = [doc EXCEPT ![d].pc = "rejected", ![d].result = r.error]
               /\ UNCHANGED <<sub, writes>>
          ELSE /\ sub' = [sub EXCEPT ![d] = r.chunks]
               /\ writes' = [writes EXCEPT ![d] =
                               [i \in DOMAIN sub'[d] |-> [b \in DOMAIN sub'[d][i] |-> 0]]]
               /\ doc' = [doc EXCEPT ![d].pc = "detecting"]
    /\ UNCHANGED <<settings, semaphore, task, upload, context, prompt, calls, received, frontend>>

\* Variant: when tenacity stops, the caller goes on without a context.
DetectContext_GoesOn(d) ==
    /\ doc[d].pc = "detecting"
    /\ \E outcome \in DetectOutcomes(settings.AI_PROVIDER, doc[d].speed_mode, sub[d]) :
         LET attempt == context[d].attempt + 1
         IN IF outcome # Failed
            THEN /\ context' = [context EXCEPT ![d] = [attempt |-> attempt, value |-> outcome]]
                 /\ doc' = [doc EXCEPT ![d].pc = "parsed"]
            ELSE /\ context' = [context EXCEPT ![d].attempt = attempt]
                 /\ doc' = IF attempt >= settings.RETRY_MAX_ATTEMPTS
                           THEN [doc EXCEPT ![d].pc = "parsed"]
                           ELSE doc
    /\ UNCHANGED <<settings, semaphore, sub, task, upload, prompt, calls, received, writes, frontend>>

\* One attempt of detect_context under its configurable_retry: the string is
\* returned to the caller; an exception is retried after the fixed wait
\* until tenacity stops (attempt_number >= RETRY_MAX_ATTEMPTS) and re-raises
\* it to the caller, which ends the request.
DetectContext(d) ==
    /\ doc[d].pc = "detecting"
    /\ \E outcome \in DetectOutcomes(settings.AI_PROVIDER, doc[d].speed_mode, sub[d]) :
         LET attempt == context[d].attempt + 1
         IN IF outcome # Failed
            THEN /\ context' = [context EXCEPT ![d] = [attempt |-> attempt, value |-> outcome]]
                 /\ doc' = [doc EXCEPT ![d].pc = "parsed"]
            ELSE /\ context' = [context EXCEPT ![d].attempt = attempt]
                 /\ doc' = IF attempt >= settings.RETRY_MAX_ATTEMPTS
                           THEN [doc EXCEPT ![d].pc = "raised"]
                           ELSE doc
    /\ UNCHANGED <<settings, semaphore, sub, task, upload, prompt, calls, received, writes, frontend>>

\* translate_all_chunks builds system_prompt before it creates the tasks.
RecordPrompt(d) ==
    /\ prompt' = [prompt EXCEPT ![d] = SystemPrompt(context[d].value)]
    /\ received' = [received EXCEPT ![d] =
                      [i \in ChunkIds(d) |-> [class |-> None, attempt |-> 0]]]
    /\ UNCHANGED <<upload, context, calls, writes, frontend>>

\* A step of the task of chunk i that enters the guarded section: the mock
\* branch assigns every block once; the live branch sends a request that
\* carries system_prompt.
RecordAttempt(d, i) ==
    LET entered == task[d][i].pc # "working" /\ task'[d][i].pc = "working"
    IN /\ calls' = IF entered /\ ModeOf(d) # "mock"
                   THEN calls \cup {[doc |-> d, chunk |-> i,
                                     attempt |-> task'[d][i].current_attempt,
                                     system_prompt |-> prompt[d]]}
                   ELSE calls
       /\ writes' = IF entered /\ ModeOf(d) = "mock"
                    THEN [writes EXCEPT ![d][i] = [b \in DOMAIN @ |-> Counted(@[b] + 1)]]
                    ELSE writes
       /\ UNCHANGED <<upload, context, prompt, received, frontend>>

\* The response the step of ProviderResponds worked on: one that leaves the
\* chunk and the attempt the way the step did.
RecordResponse(d, i) ==
    /\ \E resp \in ResponsesFor[Len(sub[d][i])] :
          LET len == Len(sub[d][i])
              r == ResponseOutcome(sub[d][i], resp)
              assigned == IF resp.kind = "validated"
                          THEN AssignedEntries(resp.entries, len) ELSE <<>>
          IN /\ r.chunk = sub'[d][i]
             /\ r.ok = (task'[d][i].pc = "done" /\ ~task'[d][i].result[2])
             /\ received' = [received EXCEPT ![d][i] =
                               [class |-> ResponseClass(resp, len),
                                attempt |-> task[d][i].current_attempt]]
             /\ writes' = [writes EXCEPT ![d][i] =
                             [b \in DOMAIN @ |-> Counted(@[b] + AssignmentsTo(assigned, b))]]
    /\ UNCHANGED <<upload, context, prompt, calls, frontend>>

TraceNext ==
    \E d \in Jobs :
        \/ ParseSrt(d)
        \/ DetectContext(d)
        \/ StartTranslation(d) /\ RecordPrompt(d)
        \/ CancelDocument(d) /\ UNCHANGED <<observed, frontend>>
        \/ TaskGroupAbort(d) /\ UNCHANGED <<observed, frontend>>
        \/ TaskGroupExit(d) /\ UNCHANGED <<observed, frontend>>
        \/ Reassemble(d) /\ UNCHANGED <<observed, frontend>>
        \/ \E i \in 1..TraceMaxBlocks :
              \/ BeginAttempt(d, i) /\ RecordAttempt(d, i)
              \/ AcquireSlot(d, i) /\ RecordAttempt(d, i)
              \/ MockSleepDone(d, i) /\ UNCHANGED <<observed, frontend>>
              \/ ProviderResponds(d, i) /\ RecordResponse(d, i)
              \/ TaskCancelled(d, i) /\ UNCHANGED <<observed, frontend>>

TraceSpec == TraceInit /\ [][TraceNext]_allvars

\* ParseSpec: parse_srt alone, over files of every length up to
\* MaxParsedBlocks and every max_blocks up to MaxChunkSetting.
ParseInit ==
    /\ settings \in [RETRY_MAX_ATTEMPTS : {MaxRetrySetting},
                     MAX_CONCURRENT_TRANSLATIONS : {MaxPermits},
                     CHUNK_MAX_BLOCKS : 1..MaxChunkSetting,
                     AI_PROVIDER : {"google-gemini"}]
    /\ semaphore = settings.MAX_CONCURRENT_TRANSLATIONS
    /\ \E file \in [filename : FileNames, content : FileContents] :
       \E n \in 0..MaxParsedBlocks :
         /\ n >= 1 <=> file.content = "subtitles"
         /\ upload = [d \in Docs |-> IF d \in Jobs THEN [k \in 1..n |-> SubtitleBlock(k)]
                                     ELSE <<SubtitleBlock(1)>>]
         /\ request = [d \in Docs |->
                         IF d \in Jobs
                         THEN [ValidRequest EXCEPT !.filename = file.filename,
                                                   !.content = file.content]
                         ELSE ValidRequest]
    /\ sub = [d \in Docs |-> <<>>]
    /\ doc = [d \in Docs |-> [pc |-> "uploaded", speed_mode |-> "fast",
                              cancelling |-> FALSE, result |-> None]]
    /\ task = [d \in Docs |-> <<>>]
    /\ context = [d \in Docs |-> [attempt |-> 0, value |-> None]]
    /\ prompt = [d \in Docs |-> <<>>]
    /\ calls = {}
    /\ received = [d \in Docs |-> <<>>]
    /\ writes = [d \in Docs |-> <<>>]
    /\ NoFrontend

ParseNext == \E d \in Jobs : ParseSrt(d)

ParseSpec == ParseInit /\ [][ParseNext]_allvars

\* ------------------------------------------------------- the reassembler
\* The text bodies of the model, line by line: a body is its lines joined by
\* "\n" (str.split("\n") of the empty text is one empty line).
BodyLines ==
    {<<"Hello">>, <<"World", "again">>, <<"Bye">>, <<"">>, <<" ">>, <<"Bonjour">>,
     <<"Bonjour", "le monde">>, <<"le", "", "monde">>, <<"le", "monde">>}

SplitLines(body) == CHOOSE lines \in BodyLines : JoinLines(lines) = body

\* str.isspace / the empty line, for the lines of the model.
IsSpace(line) == line \in {"", " "}

\* `not content.strip()`: nothing but white space.
IsBlank(body) == \A k \in DOMAIN SplitLines(body) : IsSpace(SplitLines(body)[k])

RECURSIVE NonEmptyLines(_)
NonEmptyLines(lines) ==
    IF lines = <<>> THEN <<>>
    ELSE IF Head(lines) = "" THEN NonEmptyLines(Tail(lines))
    ELSE <<Head(lines)>> \o NonEmptyLines(Tail(lines))

\* srt.make_legal_content (Subtitle.to_srt under strict=True): a body that
\* does not start with a line break and holds no blank line is kept;
\* otherwise the line breaks at both ends are stripped and every run of
\* line breaks becomes one, so no empty line is left.
MakeLegalContent(body) ==
    LET lines == SplitLines(body)
    IN IF /\ body # ""
          /\ lines[1] # ""
          /\ \A k \in 2..(Len(lines) - 1) : lines[k] # ""
       THEN body
       ELSE JoinLines(NonEmptyLines(lines))

\* Subtitle.__lt__: subtitles are ordered by (start, end, index).
SortsBefore(a, b) ==
    \/ a.start < b.start
    \/ a.start = b.start /\ a.end < b.end
    \/ a.start = b.start /\ a.end = b.end /\ a.index < b.index

\* sorted(subtitles): stable, an element goes behind the ones it does not
\* sort before.
RECURSIVE InsertSorted(_, _)
InsertSorted(x, sorted) ==
    IF sorted = <<>> THEN <<x>>
    ELSE IF SortsBefore(x, Head(sorted)) THEN <<x>> \o sorted
    ELSE <<Head(sorted)>> \o InsertSorted(x, Tail(sorted))

RECURSIVE Sorted(_)
Sorted(subtitles) ==
    IF subtitles = <<>> THEN <<>>
    ELSE InsertSorted(subtitles[Len(subtitles)], Sorted(SubSeq(subtitles, 1, Len(subtitles) - 1)))

\* srt's skip rules: no content, a negative start, a start not before the end.
ShouldSkip(subtitle) ==
    \/ IsBlank(subtitle.content)
    \/ subtitle.start < 0
    \/ subtitle.start >= subtitle.end

\* srt.sort_and_reindex over the sorted subtitles: the skipped ones are left
\* out and the others are numbered from start_index in the order they come.
RECURSIVE Reindexed(_, _)
Reindexed(sorted, next_index) ==
    IF sorted = <<>> THEN <<>>
    ELSE IF ShouldSkip(Head(sorted)) THEN Reindexed(Tail(sorted), next_index)
    ELSE <<[Head(sorted) EXCEPT !.index = next_index]>>
         \o Reindexed(Tail(sorted), next_index + 1)

\* srt.compose(subtitles) with its defaults reindex=True, start_index=1,
\* strict=True: the entries of the text it returns, in order (to_srt writes
\* index, start --> end and the legal content of each).
Compose(subtitles) ==
    LET entries == Reindexed(Sorted(subtitles), 1)
    IN [k \in DOMAIN entries |->
          [entries[k] EXCEPT !.content = MakeLegalContent(entries[k].content)]]

\* The loops of reassemble_srt: chunk by chunk, block by block.
RECURSIVE BlocksInOrder(_)
BlocksInOrder(sub_chunks) ==
    IF sub_chunks = <<>> THEN <<>> ELSE Head(sub_chunks) \o BlocksInOrder(Tail(sub_chunks))

\* `translated_content if block.translated_content else block.content`:
\* None and the empty string fall back to the original text.
ChosenContent(block) ==
    IF block.translated_content \notin {None, ""} THEN block.translated_content
    ELSE block.content

\* reassemble_srt(sub_chunks): one Subtitle per block, composed.
ReassembleSrt(sub_chunks) ==
    LET blocks == BlocksInOrder(sub_chunks)
    IN Compose([k \in DOMAIN blocks |->
                  [index |-> blocks[k].index, start |-> blocks[k].start,
                   end |-> blocks[k].end, content |-> ChosenContent(blocks[k])]])

\* What the provider can have left in translated_content of a block when
\* the document is reassembled: nothing (None), the join of no line, a
\* blank line, a line, lines with an empty one between them.
Translations == {None, "", " ", "Bonjour", "le\n\nmonde"}

\* The first number of the file's own numbering (srt.parse keeps it).
FirstIndexes == {1, 5}

\* ReassembleSpec: reassemble_srt alone, called on a returned document. The
\* file numbers its blocks from any first index, its timings ascend or
\* descend, and every block is translated or not.
ReassembleInit ==
    /\ settings \in [RETRY_MAX_ATTEMPTS : {MaxRetrySetting},
                     MAX_CONCURRENT_TRANSLATIONS : {MaxPermits},
                     CHUNK_MAX_BLOCKS : 1..MaxReassembledBlocks,
                     AI_PROVIDER : {"google-gemini"}]
    /\ semaphore = settings.MAX_CONCURRENT_TRANSLATIONS
    /\ \E n \in 1..MaxReassembledBlocks : \E first \in FirstIndexes :
       \E ascending \in BOOLEAN : \E translated \in [1..n -> Translations] :
         LET place(k) == IF ascending THEN k ELSE n + 1 - k
             parsed == [k \in 1..n |->
                          [SubtitleBlock(k) EXCEPT
                             !.index = first + k - 1,
                             !.start = SubtitleBlock(place(k)).start,
                             !.end = SubtitleBlock(place(k)).end]]
         IN /\ upload = [d \in Docs |-> IF d \in Jobs THEN parsed ELSE <<SubtitleBlock(1)>>]
            /\ sub = [d \in Docs |->
                        IF d \in Jobs
                        THEN ChunkBlocks([k \in 1..n |->
                                            [parsed[k] EXCEPT !.translated_content = translated[k]]],
                                         settings.CHUNK_MAX_BLOCKS)
                        ELSE <<>>]
    /\ doc = [d \in Docs |-> [pc |-> IF d \in Jobs THEN "returned" ELSE "uploaded",
                              speed_mode |-> "fast", cancelling |-> FALSE,
                              result |-> IF d \in Jobs THEN <<0, 0>> ELSE None]]
    /\ task = [d \in Docs |-> <<>>]
    /\ context = [d \in Docs |-> [attempt |-> 1, value |-> MockContext]]
    /\ prompt = [d \in Docs |-> <<>>]
    /\ calls = {}
    /\ received = [d \in Docs |-> <<>>]
    /\ writes = [d \in Docs |-> <<>>]
    /\ request = [d \in Docs |-> ValidRequest]
    /\ NoFrontend

\* Variant: the chosen text is stored in the block, blank lines removed.
CallReassembleSrt_InPlace(d) ==
    /\ doc[d].pc = "returned"
    /\ Len(output[d]) < MaxReassembleCalls
    /\ output' = [output EXCEPT ![d] = Append(@, ReassembleSrt(sub[d]))]
    /\ sub' = [sub EXCEPT ![d] =
                 [i \in DOMAIN sub[d] |-> [b \in DOMAIN sub[d][i] |->
                    [sub[d][i][b] EXCEPT
                       !.translated_content = MakeLegalContent(ChosenContent(sub[d][i][b]))]]]]
    /\ UNCHANGED <<settings, semaphore, doc, task, observed, request, limiter, backend>>

\* One call of reassemble_srt on the document of d.
CallReassembleSrt(d) ==
    /\ doc[d].pc = "returned"
    /\ Len(output[d]) < MaxReassembleCalls
    /\ output' = [output EXCEPT ![d] = Append(@, ReassembleSrt(sub[d]))]
    /\ UNCHANGED <<vars, observed, request, limiter, backend>>

ReassembleNext == \E d \in Jobs : CallReassembleSrt(d)

ReassembleSpec == ReassembleInit /\ [][ReassembleNext]_allvars

\* ---------------------------------------------------------------------
\* Request validation of the translate routes (routers/translate.py).
\* ---------------------------------------------------------------------

TargetLanguages == {"Vietnamese", "French"}
AllowedSpeedModes == {"fast", "normal", "mock"}

RequestError_AnyMode(file, target_lang, speed_mode) ==
    IF file.filename \notin SrtNames THEN "Invalid file type"
    ELSE IF target_lang = "" THEN "Target language must be specified"
    ELSE IF target_lang \notin TargetLanguages THEN "Invalid target language"
    ELSE None

RequestError(file, target_lang, speed_mode) ==
    IF file.filename \notin SrtNames THEN "Invalid file type"
    ELSE IF target_lang = "" THEN "Target language must be specified"
    ELSE IF target_lang \notin TargetLanguages THEN "Invalid target language"
    ELSE IF speed_mode \notin AllowedSpeedModes THEN "Invalid speed mode"
    ELSE None

ValidateRequest(d) ==
    /\ doc[d].pc = "received"
    /\ doc' = IF RequestError(request[d], request[d].target_lang, doc[d].speed_mode) # None
              THEN [doc EXCEPT ![d].pc = "rejected", ![d].result = "HTTP 400"]
              ELSE [doc EXCEPT ![d].pc = "uploaded"]
    /\ UNCHANGED <<settings, semaphore, sub, task, observed, frontend>>

UploadNames == {"movie.srt", "movie.txt", ""}
RequestLanguages == {"French", "Klingon", ""}
RequestSpeedModes == {"mock", "fast", "turbo"}

RequestInit ==
    /\ settings \in [RETRY_MAX_ATTEMPTS : {MaxRetrySetting},
                     MAX_CONCURRENT_TRANSLATIONS : {1, MaxPermits},
                     CHUNK_MAX_BLOCKS : {TraceChunkBlocks},
                     AI_PROVIDER : {"mock", "google-gemini"}]
    /\ semaphore = settings.MAX_CONCURRENT_TRANSLATIONS
    /\ \E file \in [filename : UploadNames, target_lang : RequestLanguages,
                    content : FileContents] :
         request = [d \in Docs |-> IF d \in Jobs THEN file ELSE ValidRequest]
    /\ \E n \in 0..TraceMaxBlocks :
         /\ \A d \in Jobs : n >= 1 <=> request[d].content = "subtitles"
         /\ upload = [d \in Docs |-> IF d \in Jobs THEN [k \in 1..n |-> SubtitleBlock(k)]
                                     ELSE <<SubtitleBlock(1)>>]
    /\ sub = [d \in Docs |-> <<>>]
    /\ \E m \in RequestSpeedModes :
         doc = [d \in Docs |-> [pc |-> "received", speed_mode |-> m,
                                cancelling |-> FALSE, result |-> None]]
    /\ task = [d \in Docs |-> <<>>]
    /\ context = [d \in Docs |-> [attempt |-> 0, value |-> None]]
    /\ prompt = [d \in Docs |-> <<>>]
    /\ calls = {}
    /\ received = [d \in Docs |-> <<>>]
    /\ writes = [d \in Docs |-> <<>>]
    /\ NoFrontend

RequestNext ==
    \/ \E d \in Jobs : ValidateRequest(d)
    \/ TraceNext

RequestSpec == RequestInit /\ [][RequestNext]_allvars

\* ---------------------------------------------------------------------
\* The session rate limiter (core/rate_limiter.py). keys and counts are the
\* dictionary session_counts; op, session, status and returned record the
\* last call and its outcome; reset, before, checks and accepted record, for
\* each session, whether it was reset, the count it had then, and how many
\* check_limit calls were made and accepted since (checks stops counting
\* beyond file_limit + 1).
\* ---------------------------------------------------------------------

SessionCount(l, s) == IF s \in l.keys THEN l.counts[s] ELSE 0

Min(a, b) == IF a <= b THEN a ELSE b

Called(l, op, s, status, returned) ==
    [l EXCEPT !.op = op, !.session = s, !.status = status, !.returned = returned]

CheckLimit_FromZero(s) ==
    LET current_count == SessionCount(limiter, s)
        counted == [limiter EXCEPT !.checks[s] = Min(@ + 1, limiter.file_limit + 1),
                                   !.inner = <<s>>]
    IN /\ limiter' =
            IF current_count >= limiter.file_limit
            THEN Called(counted, "check_limit", s, "HTTP 429", 0)
            ELSE Called([counted EXCEPT !.keys = @ \cup {s},
                                        !.counts[s] = 1,
                                        !.accepted[s] = @ + 1],
                        "check_limit", s, "ok", 0)
       /\ UNCHANGED <<vars, observed, request, output, backend>>

CheckLimit_Above(s) ==
    LET current_count == SessionCount(limiter, s)
        counted == [limiter EXCEPT !.checks[s] = Min(@ + 1, limiter.file_limit + 1),
                                   !.inner = <<s>>]
    IN /\ limiter' =
            IF current_count > limiter.file_limit
            THEN Called(counted, "check_limit", s, "HTTP 429", 0)
            ELSE Called([counted EXCEPT !.keys = @ \cup {s},
                                        !.counts[s] = current_count + 1,
                                        !.accepted[s] = @ + 1],
                        "check_limit", s, "ok", 0)
       /\ UNCHANGED <<vars, observed, request, output, backend>>

Fresh(l) == [l EXCEPT !.inner = <<>>]

CheckLimitOf_OneMore(l, s) ==
    LET current_count == SessionCount(l, s)
        counted == [l EXCEPT !.checks[s] = Min(@ + 1, l.file_limit + 1),
                             !.inner = Append(@, s)]
    IN IF current_count > l.file_limit
       THEN Called(counted, "check_limit", s, "HTTP 429", 0)
       ELSE Called([counted EXCEPT !.keys = @ \cup {s},
                                   !.counts[s] = current_count + 1,
                                   !.accepted[s] = @ + 1],
                   "check_limit", s, "ok", 0)

CheckLimitOf(l, s) ==
    LET current_count == SessionCount(l, s)
        counted == [l EXCEPT !.checks[s] = Min(@ + 1, l.file_limit + 1),
                             !.inner = Append(@, s)]
    IN IF current_count >= l.file_limit
       THEN Called(counted, "check_limit", s, "HTTP 429", 0)
       ELSE Called([counted EXCEPT !.keys = @ \cup {s},
                                   !.counts[s] = current_count + 1,
                                   !.accepted[s] = @ + 1],
                   "check_limit", s, "ok", 0)

CheckLimit(s) ==
    /\ limiter' = CheckLimitOf(Fresh(limiter), s)
    /\ UNCHANGED <<vars, observed, request, output, backend>>

GetSessionCount(s) ==
    /\ limiter' = Called(Fresh(limiter), "get_session_count", s, None,
                         SessionCount(limiter, s))
    /\ UNCHANGED <<vars, observed, request, output, backend>>

ResetSession_KeepsCount(s) ==
    /\ limiter' = Called([Fresh(limiter) EXCEPT !.keys = @ \cup {s},
                                                !.counts[s] = SessionCount(limiter, s),
                                                !.reset = @ \cup {s},
                                                !.before[s] = SessionCount(limiter, s),
                                                !.checks[s] = 0,
                                                !.accepted[s] = 0],
                         "reset_session", s, None, 0)
    /\ UNCHANGED <<vars, observed, request, output, backend>>

ResetSession(s) ==
    /\ limiter' = Called([Fresh(limiter) EXCEPT !.keys = @ \cup {s},
                                                !.counts[s] = 0,
                                                !.reset = @ \cup {s},
                                                !.before[s] = SessionCount(limiter, s),
                                                !.checks[s] = 0,
                                                !.accepted[s] = 0],
                         "reset_session", s, None, 0)
    /\ UNCHANGED <<vars, observed, request, output, backend>>

LimiterInit ==
    /\ settings = [RETRY_MAX_ATTEMPTS |-> MaxRetrySetting,
                   MAX_CONCURRENT_TRANSLATIONS |-> MaxPermits,
                   CHUNK_MAX_BLOCKS |-> ChunkMaxBlocks, AI_PROVIDER |-> "mock"]
    /\ semaphore = settings.MAX_CONCURRENT_TRANSLATIONS
    /\ upload = [d \in Docs |-> <<>>]
    /\ sub = [d \in Docs |-> <<>>]
    /\ doc = [d \in Docs |-> [pc |-> "received", speed_mode |-> "mock",
                              cancelling |-> FALSE, result |-> None]]
    /\ task = [d \in Docs |-> <<>>]
    /\ context = [d \in Docs |-> [attempt |-> 0, value |-> None]]
    /\ prompt = [d \in Docs |-> <<>>]
    /\ calls = {}
    /\ received = [d \in Docs |-> <<>>]
    /\ writes = [d \in Docs |-> <<>>]
    /\ request = [d \in Docs |-> ValidRequest]
    /\ output = [d \in Docs |-> <<>>]
    /\ backend = NoBackend
    /\ \E file_limit \in 1..MaxFileLimit : limiter = RateLimiter(file_limit)

LimiterNext ==
    \E s \in Sessions :
        \/ CheckLimit(s)
        \/ GetSessionCount(s)
        \/ ResetSession(s)

LimiterSpec == LimiterInit /\ [][LimiterNext]_allvars

\* ---------------------------------------------------------------------
\* The module-level limiter and the route dependency (core/rate_limiter.py
\* 56-87). instance is 0 while _rate_limiter is None and numbers the
\* RateLimiter objects constructed since; passed is the SESSION_FILE_LIMIT
\* of the settings handed to the last call; inner lists the session ids the
\* last operation handed to check_limit.
\* ---------------------------------------------------------------------

NoRateLimiter == [RateLimiter(0) EXCEPT !.instance = 0]

NoSession == ""
SessionIds == Sessions \cup {NoSession}

GetRateLimiterOf_Fresh(l, file_limit) ==
    [RateLimiter(file_limit) EXCEPT !.instance = Min(l.instance + 1, 2)]

GetRateLimiterOf(l, file_limit) ==
    IF l.instance = 0 THEN RateLimiter(file_limit) ELSE l

GetRateLimiter(file_limit) ==
    /\ limiter' = LET got == GetRateLimiterOf(limiter, file_limit)
                  IN [Called(Fresh(got), "get_rate_limiter", None, None, got.instance)
                         EXCEPT !.passed = file_limit]
    /\ UNCHANGED <<vars, observed, request, output, backend>>

CheckSessionFileLimit_Twice(session_id, file_limit) ==
    /\ limiter' =
          IF session_id = NoSession
          THEN [Called(Fresh(limiter), "check_session_file_limit", session_id, "HTTP 400", 0)
                   EXCEPT !.passed = file_limit]
          ELSE LET rate_limiter == GetRateLimiterOf(limiter, file_limit)
                   once == CheckLimitOf(Fresh(rate_limiter), session_id)
                   checked == CheckLimitOf(once, session_id)
               IN [checked EXCEPT !.op = "check_session_file_limit",
                                  !.passed = file_limit]
    /\ UNCHANGED <<vars, observed, request, output, backend>>

CheckSessionFileLimit(session_id, file_limit) ==
    /\ limiter' =
          IF session_id = NoSession
          THEN [Called(Fresh(limiter), "check_session_file_limit", session_id, "HTTP 400", 0)
                   EXCEPT !.passed = file_limit]
          ELSE LET rate_limiter == GetRateLimiterOf(limiter, file_limit)
                   checked == CheckLimitOf(Fresh(rate_limiter), session_id)
               IN [checked EXCEPT !.op = "check_session_file_limit",
                                  !.passed = file_limit]
    /\ UNCHANGED <<vars, observed, request, output, backend>>

DependencyInit ==
    /\ settings = [RETRY_MAX_ATTEMPTS |-> MaxRetrySetting,
                   MAX_CONCURRENT_TRANSLATIONS |-> MaxPermits,
                   CHUNK_MAX_BLOCKS |-> ChunkMaxBlocks, AI_PROVIDER |-> "mock"]
    /\ semaphore = settings.MAX_CONCURRENT_TRANSLATIONS
    /\ upload = [d \in Docs |-> <<>>]
    /\ sub = [d \in Docs |-> <<>>]
    /\ doc = [d \in Docs |-> [pc |-> "received", speed_mode |-> "mock",
                              cancelling |-> FALSE, result |-> None]]
    /\ task = [d \in Docs |-> <<>>]
    /\ context = [d \in Docs |-> [attempt |-> 0, value |-> None]]
    /\ prompt = [d \in Docs |-> <<>>]
    /\ calls = {}
    /\ received = [d \in Docs |-> <<>>]
    /\ writes = [d \in Docs |-> <<>>]
    /\ request = [d \in Docs |-> ValidRequest]
    /\ output = [d \in Docs |-> <<>>]
    /\ backend = NoBackend
    /\ limiter = NoRateLimiter

DependencyNext ==
    \E file_limit \in 1..MaxFileLimit :
        \/ GetRateLimiter(file_limit)
        \/ \E session_id \in SessionIds : CheckSessionFileLimit(session_id, file_limit)

DependencySpec == DependencyInit /\ [][DependencyNext]_allvars

\* ---------------------------------------------------------------------
\* TermSpec: translate_all_chunks of both documents on the one limiter,
\* with no cancel_translation call. The event loop resumes every coroutine
\* that is due, every retry delay ends, and every provider call comes back.
\* ---------------------------------------------------------------------

TermInit ==
    /\ settings \in [RETRY_MAX_ATTEMPTS : 0..MaxRetrySetting,
                     MAX_CONCURRENT_TRANSLATIONS : 1..MaxPermits,
                     CHUNK_MAX_BLOCKS : {TraceChunkBlocks},
                     AI_PROVIDER : {"mock", "google-gemini"}]
    /\ semaphore = settings.MAX_CONCURRENT_TRANSLATIONS
    /\ \E n \in [Docs -> 1..TraceMaxBlocks] :
         /\ \E d \in Docs : n[d] = 1
         /\ sub = [d \in Docs |-> ParsedDocument(n[d], settings.CHUNK_MAX_BLOCKS)]
         /\ upload = [d \in Docs |-> [k \in 1..n[d] |-> SubtitleBlock(k)]]
    /\ \E m \in SpeedModes :
         doc = [d \in Docs |-> [pc |-> "parsed", speed_mode |-> m,
                                cancelling |-> FALSE, result |-> None]]
    /\ task = [d \in Docs |-> <<>>]
    /\ NoRecord

TermJobStep(d) ==
    \/ StartTranslation(d) /\ UNCHANGED <<observed, frontend>>
    \/ TaskGroupExit(d) /\ UNCHANGED <<observed, frontend>>
    \/ Reassemble(d) /\ UNCHANGED <<observed, frontend>>

TermTaskStep(d, i) ==
    \/ BeginAttempt(d, i) /\ UNCHANGED <<observed, frontend>>
    \/ AcquireSlot(d, i) /\ UNCHANGED <<observed, frontend>>
    \/ MockSleepDone(d, i) /\ UNCHANGED <<observed, frontend>>

TermProviderStep(d, i) == ProviderResponds(d, i) /\ UNCHANGED <<observed, frontend>>

TermNext ==
    \E d \in Docs :
        \/ TermJobStep(d)
        \/ \E i \in 1..TraceMaxBlocks :
              \/ TermTaskStep(d, i)
              \/ TermProviderStep(d, i)

TermSpec ==
    /\ TermInit
    /\ [][TermNext]_allvars
    /\ \A d \in Docs : WF_allvars(TermJobStep(d))
    /\ \A d \in Docs : \A i \in 1..TraceMaxBlocks :
          /\ WF_allvars(TermTaskStep(d, i))
          /\ WF_allvars(TermProviderStep(d, i))

\* ---------------------------------------------------------------------
\* The statistics store (core/stats.py). Every method runs from its first
\* line to its return without a suspension: the lock is only ever held
\* over code that does not await, so `async with self._lock` never waits.
\* ---------------------------------------------------------------------

CreateFileEntryOf(st) ==
    LET request_id == st.counter
    IN [st EXCEPT !.counter = @ + 1,
                  !.keys = @ \cup {request_id},
                  !.entry[request_id] = [NoFileStats EXCEPT !.status = "processing"],
                  !.total.files = @ + 1,
                  !.issued = Append(@, request_id)]

UpdateParsingStatsOf_Unchecked(st, request_id, num_chunks, total_blocks) ==
    [st EXCEPT !.entry[request_id].total_chunks = num_chunks,
               !.entry[request_id].total_blocks = total_blocks,
               !.total.chunks = @ + num_chunks,
               !.total.blocks = @ + total_blocks,
               !.parsing_calls = @ \cup {request_id}]

UpdateParsingStatsOf(st, request_id, num_chunks, total_blocks) ==
    IF request_id \in st.keys
    THEN [st EXCEPT !.entry[request_id].total_chunks = num_chunks,
                    !.entry[request_id].total_blocks = total_blocks,
                    !.total.chunks = @ + num_chunks,
                    !.total.blocks = @ + total_blocks,
                    !.parsing_calls = @ \cup {request_id}]
    ELSE [st EXCEPT !.parsing_calls = @ \cup {request_id}]

UpdateTranslationStatsOf(st, request_id, total_failed_attempts, chunks_with_failures) ==
    IF request_id \in st.keys
    THEN [st EXCEPT !.entry[request_id].translation_failed_attempts = total_failed_attempts,
                    !.entry[request_id].chunks_with_failures = chunks_with_failures,
                    !.total.failed_attempts = @ + total_failed_attempts,
                    !.total.chunks_with_failures = @ + chunks_with_failures,
                    !.translation_calls = @ \cup {request_id}]
    ELSE [st EXCEPT !.translation_calls = @ \cup {request_id}]

CompleteRequestOf(st, request_id, status) ==
    IF request_id \in st.keys
    THEN [st EXCEPT !.entry[request_id].ended = TRUE,
                    !.entry[request_id].status = status]
    ELSE st

CreateFileEntry ==
    /\ backend.stats.counter <= MaxRequests
    /\ backend' = [backend EXCEPT !.stats = CreateFileEntryOf(@)]
    /\ UNCHANGED <<vars, observed, request, output, limiter>>

UpdateParsingStats(request_id, num_chunks, total_blocks) ==
    /\ request_id \notin backend.stats.parsing_calls
    /\ backend' = [backend EXCEPT
                      !.stats = UpdateParsingStatsOf(@, request_id, num_chunks, total_blocks)]
    /\ UNCHANGED <<vars, observed, request, output, limiter>>

UpdateTranslationStats(request_id, total_failed_attempts, chunks_with_failures) ==
    /\ request_id \notin backend.stats.translation_calls
    /\ backend' = [backend EXCEPT
                      !.stats = UpdateTranslationStatsOf(@, request_id, total_failed_attempts,
                                                         chunks_with_failures)]
    /\ UNCHANGED <<vars, observed, request, output, limiter>>

FinalStatuses == {"completed", "failed", "cancelled"}

CompleteRequest(request_id, status) ==
    /\ backend' = [backend EXCEPT !.stats = CompleteRequestOf(@, request_id, status)]
    /\ UNCHANGED <<vars, observed, request, output, limiter>>

\* What the updates are handed: (num_chunks, total_blocks) of a file without
\* blocks or of one chunk of MaxStat blocks; (failed attempts, chunks with
\* failures) of a clean translation or of one chunk that failed MaxStat times.
ParsingCounts == {<<0, 0>>, <<1, MaxStat>>}
TranslationCounts == {<<0, 0>>, <<MaxStat, 1>>}

StatsInit ==
    /\ settings = [RETRY_MAX_ATTEMPTS |-> MaxRetrySetting,
                   MAX_CONCURRENT_TRANSLATIONS |-> MaxPermits,
                   CHUNK_MAX_BLOCKS |-> ChunkMaxBlocks, AI_PROVIDER |-> "mock"]
    /\ semaphore = settings.MAX_CONCURRENT_TRANSLATIONS
    /\ upload = [d \in Docs |-> <<>>]
    /\ sub = [d \in Docs |-> <<>>]
    /\ doc = [d \in Docs |-> [pc |-> "received", speed_mode |-> "mock",
                              cancelling |-> FALSE, result |-> None]]
    /\ task = [d \in Docs |-> <<>>]
    /\ context = [d \in Docs |-> [attempt |-> 0, value |-> None]]
    /\ prompt = [d \in Docs |-> <<>>]
    /\ calls = {}
    /\ received = [d \in Docs |-> <<>>]
    /\ writes = [d \in Docs |-> <<>>]
    /\ request = [d \in Docs |-> ValidRequest]
    /\ NoFrontend

StatsNext ==
    \/ CreateFileEntry
    \/ \E request_id \in RequestIds :
          \/ \E counts \in ParsingCounts :
                UpdateParsingStats(request_id, counts[1], counts[2])
          \/ \E counts \in TranslationCounts :
                UpdateTranslationStats(request_id, counts[1], counts[2])
          \/ \E status \in FinalStatuses : CompleteRequest(request_id, status)

StatsSpec == StatsInit /\ [][StatsNext]_allvars

\* ---------------------------------------------------------------------
\* The job routes and the two workflows (routers/translate.py). A step of a
\* worker runs from one await that suspends to the next; parse_srt,
\* detect_context and translate_all_chunks come back with a result or with
\* an exception.
\* ---------------------------------------------------------------------

\* What parse_srt's chunks amount to, as (num_chunks, total_blocks): the
\* uploads are files of one chunk of MaxStat blocks.
ParsedCounts == <<1, MaxStat>>

\* What translate_all_chunks returns for them, as (failed attempts, chunks
\* with failures): the chunk failed MaxStat times.
TranslatedCounts == <<MaxStat, 1>>

FileStems == {<<"mov">>, <<"mov", "ie">>}

Lower(target_lang) == IF target_lang = "French" THEN "french" ELSE "vietnamese"

\* os.path.splitext(filename)[0]
SplitExt(filename) == SubSeq(filename, 1, Len(filename) - 1)

\* f"{os.path.splitext(filename)[0]}_{target_lang.lower()}.srt"
NewFilename(filename, target_lang) ==
    SplitExt(filename) \o <<"_" \o Lower(target_lang), ".srt">>

\* str.startswith
StartsWith(name, prefix) ==
    /\ Len(prefix) <= Len(name)
    /\ SubSeq(name, 1, Len(prefix)) = prefix

TerminalStatuses == {"completed", "failed", "cancelled"}

Answered(b, route, job_id, code, owner) ==
    [b EXCEPT !.response = [route |-> route, job |-> job_id, code |-> code, owner |-> owner]]

\* The worker's coroutine is over.
Finished(b, w) == [b EXCEPT !.work[w].pc = "done", !.work[w].must_cancel = FALSE]

\* start_async_translation after its validation: the job is stored as
\* PENDING and its task is created.
StartAsyncTranslation(stem, target_lang) ==
    LET job_id == Cardinality({w \in WorkerIds : backend.work[w].kind # None}) + 1
    IN /\ job_id \in WorkerIds
       /\ backend' = [backend EXCEPT
             !.job_keys = @ \cup {job_id},
             !.job[job_id] = [filename |-> stem \o <<".srt">>, target_lang |-> target_lang,
                              status |-> "pending", request_id |-> 0],
             !.work[job_id] = [NoWorker EXCEPT !.kind = "async", !.pc = "created"]]
       /\ UNCHANGED <<vars, observed, request, output, limiter>>

\* The three except/finally endings of process_translation_async.
JobFailed(b, w) ==
    LET failed == [b EXCEPT !.job[w].status = "failed"]
        request_id == b.work[w].request_id
    IN Finished(IF request_id # 0
                THEN [failed EXCEPT !.stats = CompleteRequestOf(@, request_id, "failed")]
                ELSE failed, w)

JobCancelledOf_AsFailure(b, w) == JobFailed(b, w)

JobCancelledOf_NotCompleted(b, w) ==
    Finished([b EXCEPT !.job[w].status = "cancelled"], w)

JobCancelledOf(b, w) ==
    LET cancelled == [b EXCEPT !.job[w].status = "cancelled"]
        request_id == b.work[w].request_id
    IN Finished(IF request_id # 0
                THEN [cancelled EXCEPT !.stats = CompleteRequestOf(@, request_id, "cancelled")]
                ELSE cancelled, w)

\* `if job.status == TranslationStatus.CANCELLED: return`
ReturnIfCancelled(b, w, otherwise) ==
    IF b.job[w].status = "cancelled" THEN Finished(b, w) ELSE otherwise

\* A worker can take its next ordinary step.
Resumes(w, kind, pc) ==
    /\ backend.work[w].kind = kind
    /\ backend.work[w].pc = pc
    /\ ~backend.work[w].must_cancel

\* process_translation_async up to the write of the uploaded file.
JobStart(w) ==
    /\ Resumes(w, "async", "created")
    /\ backend' = [backend EXCEPT !.job[w].status = "processing", !.work[w].pc = "writing"]
    /\ UNCHANGED <<vars, observed, request, output, limiter>>

\* The file is written (or the write fails); create_file_entry; parse_srt
\* is awaited.
JobWritten(w) ==
    /\ Resumes(w, "async", "writing")
    /\ \E ok \in BOOLEAN :
         backend' =
            IF ~ok \/ backend.stats.counter > MaxRequests THEN JobFailed(backend, w)
            ELSE LET request_id == backend.stats.counter
                     entered == [backend EXCEPT !.stats = CreateFileEntryOf(@),
                                                !.work[w].request_id = request_id,
                                                !.job[w].request_id = request_id]
                 IN ReturnIfCancelled(entered, w, [entered EXCEPT !.work[w].pc = "parsing"])
    /\ UNCHANGED <<vars, observed, request, output, limiter>>

\* parse_srt returns its chunks or raises; update_parsing_stats;
\* detect_context is awaited.
JobParsed(w) ==
    /\ Resumes(w, "async", "parsing")
    /\ \E ok \in BOOLEAN :
         backend' =
            IF ~ok THEN JobFailed(backend, w)
            ELSE LET counts == ParsedCounts
                     updated == [backend EXCEPT !.stats =
                        UpdateParsingStatsOf(@, backend.work[w].request_id, counts[1], counts[2])]
                 IN ReturnIfCancelled(updated, w, [updated EXCEPT !.work[w].pc = "detecting"])
    /\ UNCHANGED <<vars, observed, request, output, limiter>>

\* detect_context returns or raises; translate_all_chunks is awaited.
JobDetected(w) ==
    /\ Resumes(w, "async", "detecting")
    /\ \E ok \in BOOLEAN :
         backend' =
            IF ~ok THEN JobFailed(backend, w)
            ELSE ReturnIfCancelled(backend, w, [backend EXCEPT !.work[w].pc = "translating"])
    /\ UNCHANGED <<vars, observed, request, output, limiter>>

\* translate_all_chunks returns its statistics or raises;
\* update_translation_stats; the output file is written into the job's
\* temporary directory; the job is COMPLETED; complete_request.
JobTranslated(w) ==
    /\ Resumes(w, "async", "translating")
    /\ \E ok \in BOOLEAN :
         backend' =
            IF ~ok THEN JobFailed(backend, w)
            ELSE LET counts == TranslatedCounts
                     request_id == backend.work[w].request_id
                     updated == [backend EXCEPT !.stats =
                        UpdateTranslationStatsOf(@, request_id, counts[1], counts[2])]
                     new_filename == NewFilename(backend.job[w].filename,
                                                 backend.job[w].target_lang)
                     saved == [updated EXCEPT
                                  !.dirs = @ \cup {[job |-> w, output |-> new_filename]},
                                  !.job[w].status = "completed"]
                 IN ReturnIfCancelled(updated, w,
                       Finished(IF request_id # 0
                                THEN [saved EXCEPT !.stats =
                                         CompleteRequestOf(@, request_id, "completed")]
                                ELSE saved, w))
    /\ UNCHANGED <<vars, observed, request, output, limiter>>

\* The CancelledError of task.cancel() reaches the worker: a task that never
\* ran ends at once, a running one ends in its `except CancelledError`.
JobCancelled(w) ==
    /\ backend.work[w].kind = "async"
    /\ backend.work[w].pc # "done"
    /\ backend.work[w].must_cancel
    /\ backend' = IF backend.work[w].pc = "created" THEN Finished(backend, w)
                  ELSE JobCancelledOf(backend, w)
    /\ UNCHANGED <<vars, observed, request, output, limiter>>

\* cancel_translation
CancelTranslation(job_id) ==
    /\ backend' =
          IF job_id \notin backend.job_keys
          THEN Answered(backend, "cancel", job_id, 404, 0)
          ELSE IF backend.job[job_id].status \in TerminalStatuses
          THEN Answered(backend, "cancel", job_id, 400, 0)
          ELSE Answered([backend EXCEPT
                            !.work[job_id].must_cancel = backend.work[job_id].pc # "done",
                            !.job[job_id].status = "cancelled"],
                        "cancel", job_id, 200, 0)
    /\ UNCHANGED <<vars, observed, request, output, limiter>>

\* The output files download_translation can come upon first: os.listdir
\* gives the directories in no particular order.
Candidates(b, job_id) ==
    {dir \in b.dirs : StartsWith(dir.output, SplitExt(b.job[job_id].filename))}

\* download_translation
DownloadTranslation(job_id) ==
    /\ \/ /\ job_id \notin backend.job_keys
          /\ backend' = Answered(backend, "download", job_id, 404, 0)
       \/ /\ job_id \in backend.job_keys
          /\ backend.job[job_id].status # "completed"
          /\ backend' = Answered(backend, "download", job_id, 400, 0)
       \/ /\ job_id \in backend.job_keys
          /\ backend.job[job_id].status = "completed"
          /\ Candidates(backend, job_id) = {}
          /\ backend' = Answered(backend, "download", job_id, 404, 0)
       \/ /\ job_id \in backend.job_keys
          /\ backend.job[job_id].status = "completed"
          /\ \E dir \in Candidates(backend, job_id) :
                backend' = Answered(backend, "download", job_id, 200, dir.job)
    /\ UNCHANGED <<vars, observed, request, output, limiter>>

\* translate_srt after its validation: create_file_entry, then the write of
\* the uploaded file is awaited.
StartTranslateSrt ==
    LET w == Cardinality({v \in WorkerIds : backend.work[v].kind # None}) + 1
        request_id == backend.stats.counter
    IN /\ w \in WorkerIds
       /\ request_id <= MaxRequests
       /\ backend' = [backend EXCEPT
             !.stats = CreateFileEntryOf(@),
             !.work[w] = [NoWorker EXCEPT !.kind = "sync", !.pc = "writing",
                                          !.request_id = request_id]]
       /\ UNCHANGED <<vars, observed, request, output, limiter>>

\* The `finally` of translate_srt.
SrtEnded(b, w, status) ==
    Finished([b EXCEPT !.work[w].status = status,
                       !.stats = CompleteRequestOf(@, b.work[w].request_id, status)], w)

\* One await of translate_srt comes back: with an exception the request
\* ends as failed; otherwise the workflow goes on to its next await, and
\* after translate_all_chunks to reassembly and the response.
SrtStep(w) ==
    /\ backend.work[w].kind = "sync"
    /\ backend.work[w].pc \in {"writing", "parsing", "detecting", "translating"}
    /\ \E ok \in BOOLEAN :
         LET pc == backend.work[w].pc
             parsed == ParsedCounts
             translated == TranslatedCounts
             request_id == backend.work[w].request_id
         IN backend' =
               IF ~ok THEN SrtEnded(backend, w, "failed")
               ELSE IF pc = "writing" THEN [backend EXCEPT !.work[w].pc = "parsing"]
               ELSE IF pc = "parsing"
               THEN [backend EXCEPT
                        !.stats = UpdateParsingStatsOf(@, request_id, parsed[1], parsed[2]),
                        !.work[w].pc = "detecting"]
               ELSE IF pc = "detecting" THEN [backend EXCEPT !.work[w].pc = "translating"]
               ELSE SrtEnded([backend EXCEPT !.stats =
                                 UpdateTranslationStatsOf(@, request_id, translated[1],
                                                          translated[2])],
                             w, "completed")
    /\ UNCHANGED <<vars, observed, request, output, limiter>>

WorkerStep(w) ==
    \/ JobStart(w)
    \/ JobWritten(w)
    \/ JobParsed(w)
    \/ JobDetected(w)
    \/ JobTranslated(w)
    \/ JobCancelled(w)
    \/ SrtStep(w)

JobInit == StatsInit

JobNext ==
    \/ \E stem \in FileStems : StartAsyncTranslation(stem, "French")
    \/ StartTranslateSrt
    \/ \E w \in WorkerIds :
          \/ WorkerStep(w)
          \/ CancelTranslation(w)
          \/ DownloadTranslation(w)

JobSpec == JobInit /\ [][JobNext]_allvars

\* The event loop resumes every worker that is due, and the awaited calls
\* come back.
FairJobSpec == JobSpec /\ \A w \in WorkerIds : WF_allvars(WorkerStep(w))

\* The steps the event loop itself takes for the job and for the task of
\* chunk i once they are due: a ready coroutine is resumed, a sleep ends, a
\* requested cancellation is delivered.
JobStep(d) ==
    \/ ParseSrt(d)
    \/ DetectContext(d)
    \/ StartTranslation(d) /\ RecordPrompt(d)
    \/ TaskGroupAbort(d) /\ UNCHANGED <<observed, frontend>>
    \/ TaskGroupExit(d) /\ UNCHANGED <<observed, frontend>>
    \/ Reassemble(d) /\ UNCHANGED <<observed, frontend>>

TaskStep(d, i) ==
    \/ BeginAttempt(d, i) /\ RecordAttempt(d, i)
    \/ AcquireSlot(d, i) /\ RecordAttempt(d, i)
    \/ MockSleepDone(d, i) /\ UNCHANGED <<observed, frontend>>
    \/ TaskCancelled(d, i) /\ UNCHANGED <<observed, frontend>>

\* FairSpec: the recorded pipeline under the event loop's scheduling. No
\* step is promised for the provider's answer to a chunk request
\* (generate_content is awaited without a timeout) nor for the user's
\* cancel request.
FairSpec ==
    /\ TraceInit
    /\ [][TraceNext]_allvars
    /\ \A d \in Jobs : WF_allvars(JobStep(d))
    /\ \A d \in Jobs : \A i \in 1..TraceMaxBlocks : WF_allvars(TaskStep(d, i))

\* ------------------------------------------------------------ properties
\* The chunk attempts of all documents that are inside `async with semaphore`.
InFlight ==
    UNION {{<<d, i>> : i \in {j \in DOMAIN task[d] : task[d][j].pc = "working"}} : d \in Docs}

AllTasks == UNION {{task[d][i] : i \in DOMAIN task[d]} : d \in Docs}

Returned(d) == doc[d].pc \in {"returned", "reassembled"}

BlocksOf(d) == UNION {{sub[d][i][b] : b \in DOMAIN sub[d][i]} : i \in DOMAIN sub[d]}

\* C1: over all documents sharing the limiter, at most
\* MAX_CONCURRENT_TRANSLATIONS chunk attempts are inside the guarded section
\* of _translate_single_chunk at any moment.
C1_LimiterBound == Cardinality(InFlight) <= settings.MAX_CONCURRENT_TRANSLATIONS

\* The limiter is full with attempts of both documents and another waits.
C1_Witness ==
    /\ settings.MAX_CONCURRENT_TRANSLATIONS = 2
    /\ Cardinality(InFlight) = 2
    /\ \A d \in Docs : \E i \in DOMAIN task[d] : task[d][i].pc = "working"
    /\ \E t \in AllTasks : t.pc = "acquiring"

\* C2: a slot taken by an attempt is given back exactly once when the attempt
\* ends (success, error or cancellation): free slots plus attempts in the
\* guarded section always make MAX_CONCURRENT_TRANSLATIONS, so with no attempt
\* in progress every slot is free.
C2_SlotsReleased ==
    /\ semaphore + Cardinality(InFlight) = settings.MAX_CONCURRENT_TRANSLATIONS
    /\ (\A t \in AllTasks : Terminal(t)) => semaphore = settings.MAX_CONCURRENT_TRANSLATIONS

\* All attempts are over: one was cancelled inside the guarded section (a mock
\* attempt that had written its blocks), one chunk failed, one succeeded.
C2_Witness ==
    /\ \A d \in Docs : task[d] # <<>>
    /\ \A t \in AllTasks : Terminal(t)
    /\ \E d \in Docs : \E i \in DOMAIN task[d] :
          /\ ModeOf(d) = "mock"
          /\ task[d][i].pc = "cancelled"
          /\ sub[d][i][1].translated_content # None
    /\ \E t \in AllTasks : t.pc = "done" /\ t.result[2]
    /\ \E t \in AllTasks : t.pc = "done" /\ ~t.result[2]
    /\ semaphore = settings.MAX_CONCURRENT_TRANSLATIONS

\* C3: translate_all_chunks is left (by return or by an exception) only when
\* every chunk task of the document is finished, reassembly starts only after
\* its return, and no block of a document changes once its reassembly has
\* started.
C3_ReassembleAfterJoin ==
    [][\A d \in Docs :
          /\ doc'[d].pc \in {"returned", "reassembled", "raised", "cancelled"}
                => \A i \in DOMAIN task'[d] : task'[d][i].pc \in {"done", "cancelled", "raised"}
          /\ doc'[d].pc = "reassembled" => doc[d].pc \in {"returned", "reassembled"}
          /\ doc[d].pc = "reassembled" => sub'[d] = sub[d]]_vars

\* A two-chunk document is reassembled with a translated block.
C3_Witness ==
    \E d \in Docs :
        /\ doc[d].pc = "reassembled"
        /\ Len(sub[d]) >= 2
        /\ \E b \in BlocksOf(d) : b.translated_content # None

\* C4: unless the caller is cancelled, no chunk task is cancelled or aborted,
\* whatever happens to its siblings, and translate_all_chunks returns its
\* statistics with every task finished by its own outcome.
C4_SiblingsNotAborted ==
    \A d \in Docs :
        ~doc[d].cancelling =>
            /\ \A i \in DOMAIN task[d] :
                  /\ task[d][i].pc \notin {"cancelled", "raised"}
                  /\ ~task[d][i].must_cancel
            /\ doc[d].pc \notin {"raised", "cancelled"}
            /\ Returned(d) => /\ \A i \in DOMAIN task[d] : task[d][i].pc = "done"
                              /\ doc[d].result # None

\* One chunk failed on every attempt while a sibling was still at work.
C4_Witness ==
    \E d \in Docs : \E i, j \in DOMAIN task[d] :
        /\ ~doc[d].cancelling
        /\ task[d][i].pc = "done" /\ task[d][i].result[2]
        /\ task[d][i].current_attempt = 2
        /\ task[d][j].pc = "working"

\* C5 (as claimed): no chunk gets more than RETRY_MAX_ATTEMPTS attempts, for
\* every accepted setting, and a finished chunk gets no further attempt.
C5_AttemptsBounded ==
    [][\A d \in Docs : \A i \in DOMAIN task'[d] :
          /\ task'[d][i].current_attempt <= settings.RETRY_MAX_ATTEMPTS
          /\ (i \in DOMAIN task[d] /\ task[d][i].pc = "done")
                => task'[d][i].current_attempt = task[d][i].current_attempt]_vars

\* C6 (as claimed): a chunk that failed on every attempt is reported with
\* the number max_attempts and failed = true.
C6_ReportsMaxAttempts ==
    \A t \in AllTasks :
        (t.pc = "done" /\ t.result[2]) => t.result[1] = settings.RETRY_MAX_ATTEMPTS

\* C6 (amended): the step in which a chunk fails its last attempt reports
\* retries = attempts - 1 with attempts = max(1, RETRY_MAX_ATTEMPTS), and
\* failed = true, and changes no other task.
C6_FailedOutcome ==
    [][\A d \in Docs : \A i \in DOMAIN task[d] :
          (task[d][i].pc # "done" /\ task'[d][i].pc = "done" /\ task'[d][i].result[2])
             => /\ task'[d][i].current_attempt = Max(1, settings.RETRY_MAX_ATTEMPTS)
                /\ task'[d][i].result[1] = Max(1, settings.RETRY_MAX_ATTEMPTS) - 1
                /\ \A j \in DOMAIN task[d] \ {i} : task'[d][j] = task[d][j]
                /\ \A e \in Docs \ {d} : task'[e] = task[e]]_vars

\* A chunk failed after a retry next to a sibling that succeeded at once.
C6_Witness ==
    \E d \in Docs : \E i, j \in DOMAIN task[d] :
        /\ task[d][i].pc = "done" /\ task[d][i].result = <<1, TRUE>>
        /\ task[d][j].pc = "done" /\ task[d][j].result = <<0, FALSE>>

AttemptsOf(d) == SumSeq([i \in DOMAIN task[d] |-> task[d][i].current_attempt])
RetriesOf(d) == SumSeq([i \in DOMAIN task[d] |-> Max(0, task[d][i].current_attempt - 1)])

\* C7 (as claimed): the first number returned is the sum of the attempts
\* consumed by the chunks.
C7_TotalIsAttempts ==
    \A d \in Docs : Returned(d) => doc[d].result[1] = AttemptsOf(d)

\* C7 (amended): the first number returned is the sum over the chunks of the
\* retries, i.e. of attempts - 1.
C7_TotalIsRetries ==
    \A d \in Docs : Returned(d) => doc[d].result[1] = RetriesOf(d)

\* A two-chunk document returned: one chunk needed a retry, the other none.
C7_Witness ==
    \E d \in Docs : \E i, j \in DOMAIN task[d] :
        /\ doc[d].pc = "returned"
        /\ task[d][i].current_attempt = 2
        /\ task[d][j].current_attempt = 1
        /\ doc[d].result[1] = 1

\* C8: the second number returned is the number of chunks whose task ended
\* with the failure flag set; it lies between 0 and the number of chunks.
C8_FailedChunkCount ==
    \A d \in Docs :
        Returned(d) =>
            /\ doc[d].result[2] =
                  Cardinality({i \in DOMAIN task[d] : task[d][i].pc = "done" /\ task[d][i].result[2]})
            /\ 0 <= doc[d].result[2]
            /\ doc[d].result[2] <= Len(sub[d])

\* A two-chunk document returned with exactly one failed chunk, the other
\* chunk having succeeded after a retry.
C8_Witness ==
    \E d \in Docs : \E i, j \in DOMAIN task[d] :
        /\ Returned(d)
        /\ doc[d].result[2] = 1
        /\ task[d][i].result[2]
        /\ task[d][j].result = <<1, FALSE>>

\* C9 (as claimed): a mock translation, by speed_mode "mock" or through
\* MockProvider, returns with every block's translated_content equal to its
\* content, no retries and no failed chunk.
C9_MockCopiesContent ==
    \A d \in Docs :
        (Returned(d) /\ (doc[d].speed_mode = "mock" \/ settings.AI_PROVIDER = "mock"))
            => /\ \A b \in BlocksOf(d) : b.translated_content = b.content
               /\ doc[d].result = <<0, 0>>

\* C10 (as claimed): a live chunk whose last response left a position
\* without an entry ends with its failure flag set.
C10_IncompleteIsFailure ==
    \A d \in Docs : \A i \in DOMAIN task[d] :
        (/\ ModeOf(d) # "mock"
         /\ task[d][i].pc = "done"
         /\ \E b \in DOMAIN sub[d][i] : sub[d][i][b].translated_content = None)
            => task[d][i].result[2]

\* C11: a live attempt whose response is not schema-valid, lacks a required
\* field or names a position outside 0..len(chunk)-1 is a failed attempt: it
\* is counted, it is never accepted as a success, it is retried while
\* attempts are left and otherwise ends the chunk with failed = true, and
\* translate_all_chunks raises nothing because of it.
C11_MalformedIsFailure ==
    \A d \in Docs :
        /\ \A i \in DOMAIN received[d] :
              LET t == task[d][i]
                  last == received[d][i]
              IN (last.class = "malformed" /\ t.current_attempt = last.attempt) =>
                    /\ last.attempt >= 1
                    /\ t.pc \in {"sleeping", "done", "cancelled"}
                    /\ t.pc = "done" => (t.result[2] /\ t.result[1] = last.attempt - 1)
                    /\ (t.pc = "sleeping") => last.attempt < settings.RETRY_MAX_ATTEMPTS
                    /\ (t.pc = "done") => last.attempt >= settings.RETRY_MAX_ATTEMPTS
        /\ doc[d].pc = "raised" => (task[d] = <<>> /\ context[d].value = None)

\* A response with a position outside the chunk failed the first attempt
\* after it had assigned a block, and the chunk is at its second attempt.
C11_Witness ==
    \E d \in Docs : \E i \in DOMAIN received[d] :
        /\ received[d][i].class = "malformed"
        /\ received[d][i].attempt = 1
        /\ sub[d][i][1].translated_content # None
        /\ task[d][i].current_attempt = 2
        /\ task[d][i].pc = "working"

\* C12 (as claimed): an attempt that ends in failure or in cancellation
\* leaves translated_content of every block of its chunk as it was before
\* the attempt: the step of a live attempt that fails (the only step of it
\* that assigns) changes no block, and a chunk whose only attempt so far
\* failed or was cancelled has no translated_content.
C12_FailedAttemptLeavesBlocks ==
    [][\A d \in Docs : \A i \in DOMAIN task[d] :
          LET t == task[d][i]
              u == task'[d][i]
          IN /\ (/\ t.pc = "working"
                 /\ ModeOf(d) # "mock"
                 /\ u.pc = "sleeping" \/ (u.pc = "done" /\ u.result[2]))
                    => sub'[d][i] = sub[d][i]
             /\ (/\ u.current_attempt = 1
                 /\ u.pc \in {"sleeping", "cancelled"} \/ (u.pc = "done" /\ u.result[2]))
                    => \A b \in DOMAIN sub'[d][i] : sub'[d][i][b].translated_content = None]_vars

\* C13 (as claimed): over one document translation, retries and repeated
\* indices included, translated_content of a block is assigned at most once.
C13_WrittenAtMostOnce ==
    \A d \in Docs : \A i \in DOMAIN writes[d] : \A b \in DOMAIN writes[d][i] :
        writes[d][i][b] <= 1

\* C14: under every interleaving of the chunk tasks, translated_content of a
\* block is assigned only by the task of the chunk that holds the block: no
\* block is held by two chunks, and a step that changes a block of chunk i
\* is a step of the task of chunk i alone, changing no other chunk.
C14_OnlyOwnTaskWrites ==
    [][\A d \in Docs :
          /\ \A i, j \in DOMAIN sub[d] :
                \A b \in DOMAIN sub[d][i] : \A c \in DOMAIN sub[d][j] :
                    sub[d][i][b].index = sub[d][j][c].index => (i = j /\ b = c)
          /\ \A i \in DOMAIN sub[d] :
                sub'[d][i] # sub[d][i] =>
                    /\ i \in DOMAIN task[d]
                    /\ task[d][i].pc \in {"created", "sleeping", "acquiring", "working"}
                    /\ task'[d][i] # task[d][i]
                    /\ \A j \in DOMAIN task[d] \ {i} : task'[d][j] = task[d][j]
                    /\ \A j \in DOMAIN sub[d] \ {i} : sub'[d][j] = sub[d][j]
                    /\ \A e \in Docs \ {d} : sub'[e] = sub[e] /\ task'[e] = task[e]]_vars

\* Both chunks of a document are translated while both tasks were at work
\* together.
C14_Witness ==
    \E d \in Docs :
        /\ Len(sub[d]) = 2
        /\ settings.MAX_CONCURRENT_TRANSLATIONS = 2
        /\ \A i \in DOMAIN sub[d] : sub[d][i][1].translated_content # None
        /\ task[d][1].pc = "working" /\ task[d][2].pc = "working"

\* A document with translated_content of every block put back to None.
Untranslated(document) ==
    [i \in DOMAIN document |->
        [b \in DOMAIN document[i] |-> [document[i][b] EXCEPT !.translated_content = None]]]

\* C15: from parse_srt on, whatever context detection and chunk translation
\* come to (success, failure, cancellation), the document has the chunks
\* parse_srt made: the same number of chunks, the same blocks in the same
\* order in each, every index, start, end and content as parsed; only
\* translated_content differs.
C15_StructureUnchanged ==
    \A d \in Docs :
        doc[d].pc # "uploaded" =>
            /\ Untranslated(sub[d]) = ChunkBlocks(upload[d], settings.CHUNK_MAX_BLOCKS)
            /\ Len(sub[d]) = Ceil(Len(upload[d]), settings.CHUNK_MAX_BLOCKS)
            /\ \A i \in DOMAIN sub[d] : \A b \in DOMAIN sub[d][i] :
                  LET parsed == upload[d][(i - 1) * settings.CHUNK_MAX_BLOCKS + b]
                      block == sub[d][i][b]
                  IN /\ block.index = parsed.index
                     /\ block.start = parsed.start /\ block.end = parsed.end
                     /\ block.content = parsed.content

\* A cancelled job of two chunks: the first chunk was translated, the task
\* of the second was cancelled.
C15_Witness ==
    \E d \in Jobs :
        /\ doc[d].pc = "cancelled"
        /\ Len(sub[d]) = 2
        /\ sub[d][1][1].translated_content # None
        /\ task[d][1].pc = "done" /\ ~task[d][1].result[2]
        /\ task[d][2].pc = "cancelled"

\* detect_context of d raised on its last attempt.
DetectionExhausted(d) ==
    /\ context[d].value = None
    /\ context[d].attempt >= Max(1, settings.RETRY_MAX_ATTEMPTS)

\* C16: when context detection failed on every attempt up to
\* RETRY_MAX_ATTEMPTS, the translate operation has ended in an error raised
\* to its caller and no chunk work was started: no chunk task exists, no
\* chunk request was sent, no system prompt was built, no block has a
\* translated_content and nothing was returned or reassembled. Detection
\* makes no attempt beyond the configured ones.
C16_DetectionFailureIsFatal ==
    \A d \in Docs :
        /\ context[d].attempt <= Max(1, settings.RETRY_MAX_ATTEMPTS)
        /\ DetectionExhausted(d) =>
              /\ doc[d].pc = "raised"
              /\ doc[d].result = None
              /\ task[d] = <<>>
              /\ prompt[d] = <<>>
              /\ ~\E c \in calls : c.doc = d
              /\ \A i \in DOMAIN sub[d] : \A b \in DOMAIN sub[d][i] :
                    /\ sub[d][i][b].translated_content = None
                    /\ writes[d][i][b] = 0

\* Detection of a file with blocks failed twice, with two attempts configured.
C16_Witness ==
    \E d \in Jobs :
        /\ settings.RETRY_MAX_ATTEMPTS = 2
        /\ Len(sub[d]) >= 1
        /\ context[d] = [attempt |-> 2, value |-> None]
        /\ doc[d].pc = "raised"

\* C17: every chunk request of a document, whatever the chunk and the
\* attempt, carries the string the one successful detect_context of that
\* document returned, and that string is not changed from detection to the
\* end of the translation.
C17_SameContextInEveryRequest ==
    [][\A d \in Docs :
          /\ context[d].value # None => context'[d] = context[d]
          /\ \A c \in calls' :
                c.doc = d =>
                    /\ context'[d].value \notin {None, Failed}
                    /\ Len(c.system_prompt) = 3
                    /\ c.system_prompt[2] = context'[d].value
                    /\ \A e \in calls' : e.doc = d => e.system_prompt = c.system_prompt]_allvars

\* Requests went out for both chunks of a document, one of them at a second
\* attempt.
C17_Witness ==
    \E d \in Jobs : \E c, e \in calls :
        /\ c.doc = d /\ e.doc = d
        /\ c.chunk = 1 /\ e.chunk = 2
        /\ c.attempt = 2
        /\ context[d].value \in LiveContexts

\* C18 (as claimed): a chunk request that never returns is treated like a
\* failed attempt, so a task inside a live attempt reaches a terminal state
\* and translate_all_chunks, once it waits for its tasks, returns or raises.
C18_StalledCallEnds ==
    \A d \in Jobs :
        /\ \A i \in 1..TraceMaxBlocks :
              (i \in DOMAIN task[d] /\ task[d][i].pc = "working")
                  ~> (i \in DOMAIN task[d] /\ Terminal(task[d][i]))
        /\ (doc[d].pc = "translating")
              ~> (doc[d].pc \in {"returned", "reassembled", "raised", "cancelled"})

\* From a step on, the chunk tasks of d only get cancelled: no attempt is
\* started, no request is sent, no block is assigned.
OnlyCancels(d) ==
    /\ sub'[d] = sub[d]
    /\ writes'[d] = writes[d]
    /\ {c \in calls' : c.doc = d} = {c \in calls : c.doc = d}
    /\ DOMAIN task'[d] = DOMAIN task[d]
    /\ \A i \in DOMAIN task[d] :
          /\ task'[d][i].current_attempt = task[d][i].current_attempt
          /\ task'[d][i].pc # task[d][i].pc => task'[d][i].pc = "cancelled"

AllTerminal(d) == \A i \in DOMAIN task[d] : Terminal(task[d][i])

\* C19 (as claimed): once a translation with outstanding chunk tasks has
\* been cancelled (cancel_translation called task.cancel()), no chunk of it
\* starts an attempt, no block of it is written, and every chunk task
\* reaches a terminal state.
C19_NothingAfterCancel ==
    /\ [][\A d \in Jobs : doc[d].cancelling => OnlyCancels(d)]_allvars
    /\ \A d \in Jobs : doc[d].cancelling ~> AllTerminal(d)

\* C19 (amended): once the cancellation has reached the TaskGroup (the job
\* resumed in TaskGroup.__aexit__ and aborted the group), every chunk task
\* that is not finished is cancelled, none starts an attempt, no block is
\* written, and every chunk task reaches a terminal state, after which the
\* job ends cancelled.
C19_NothingAfterAbort ==
    /\ [][\A d \in Jobs :
            doc[d].pc \in {"aborting", "cancelled"} => OnlyCancels(d)]_allvars
    /\ \A d \in Jobs :
          doc[d].cancelling ~> (AllTerminal(d) /\ doc[d].pc = "cancelled")

\* A cancelled job: the task of chunk 1 was cancelled inside its second
\* attempt, the task of chunk 2 before it had a slot.
C19_Witness ==
    \E d \in Jobs :
        /\ doc[d].pc = "cancelled"
        /\ Len(task[d]) = 2
        /\ task[d][1].pc = "cancelled" /\ task[d][1].current_attempt = 2
        /\ task[d][2].pc = "cancelled" /\ task[d][2].current_attempt = 1
        /\ sub[d][2][1].translated_content = None

\* The chunks of a document one after the other.
RECURSIVE Concatenated(_)
Concatenated(chunks) ==
    IF chunks = <<>> THEN <<>> ELSE Head(chunks) \o Concatenated(Tail(chunks))

\* C20: for every parsed file and every max_blocks >= 1 the chunks parse_srt
\* returns partition the parsed blocks: the chunk sizes sum to the number of
\* parsed blocks and the chunks, one after the other, are exactly the parsed
\* block sequence.
C20_ChunksPartitionBlocks ==
    \A d \in Jobs :
        doc[d].pc = "detecting" =>
            /\ SumSeq([i \in 1..Len(sub[d]) |-> Len(sub[d][i])]) = Len(upload[d])
            /\ Concatenated(sub[d]) = upload[d]

\* Seven blocks parsed under max_blocks = 3: chunks of 3, 3 and 1 blocks.
C20_Witness ==
    \E d \in Jobs :
        /\ doc[d].pc = "detecting"
        /\ Len(upload[d]) = 7
        /\ settings.CHUNK_MAX_BLOCKS = 3
        /\ Len(sub[d]) = 3
        /\ Len(sub[d][1]) = 3 /\ Len(sub[d][2]) = 3 /\ Len(sub[d][3]) = 1
        /\ sub[d][3][1].index = 7

\* C21: for a file with at least one block and every max_blocks >= 1,
\* parse_srt returns exactly ceil(total_blocks / max_blocks) chunks, every
\* chunk has at least one and at most max_blocks blocks, and only the last
\* chunk may have fewer than max_blocks.
C21_ChunkCountAndSizes ==
    \A d \in Jobs :
        (doc[d].pc = "detecting" /\ Len(upload[d]) >= 1) =>
            LET total_blocks == Len(upload[d])
                max_blocks == settings.CHUNK_MAX_BLOCKS
                num_chunks == Len(sub[d])
            IN /\ (num_chunks - 1) * max_blocks < total_blocks
               /\ total_blocks <= num_chunks * max_blocks
               /\ \A i \in 1..num_chunks :
                     /\ Len(sub[d][i]) >= 1
                     /\ Len(sub[d][i]) <= max_blocks
                     /\ i < num_chunks => Len(sub[d][i]) = max_blocks

\* Six blocks under max_blocks = 3: two full chunks.
C21_Witness ==
    \E d \in Jobs :
        /\ doc[d].pc = "detecting"
        /\ Len(upload[d]) = 6
        /\ settings.CHUNK_MAX_BLOCKS = 3
        /\ Len(sub[d]) = 2
        /\ Len(sub[d][2]) = 3

\* C22 (as claimed): parse_srt rejects a file without a byte with the
\* invalid-input error and a file that has bytes but no timed block with
\* the malformed-content error, and returns no chunks in either case: the
\* caller never goes on with an empty result.
C22_NoBlocksIsRejected ==
    \A d \in Jobs :
        (doc[d].pc # "uploaded" /\ request[d].filename \in SrtNames) =>
            /\ request[d].content = "none" =>
                  (doc[d].pc = "rejected" /\ doc[d].result = "ValidationError")
            /\ request[d].content \in {"blank", "garbage"} =>
                  (doc[d].pc = "rejected" /\ doc[d].result = "ParsingError")
            /\ request[d].content \in {"none", "blank", "garbage"} => sub[d] = <<>>

\* C23 (as claimed): whichever blocks were translated, reassemble_srt emits
\* exactly one entry per block of the document, in chunk order then
\* in-chunk order, each with the index, start and end of its block: no block
\* is dropped and no index is reassigned.
C23_OneEntryPerBlockInOrder ==
    \A d \in Jobs : \A c \in DOMAIN output[d] :
        LET blocks == Concatenated(sub[d])
            entries == output[d][c]
        IN /\ Len(entries) = Len(blocks)
           /\ \A k \in DOMAIN blocks :
                 k \in DOMAIN entries =>
                    /\ entries[k].index = blocks[k].index
                    /\ entries[k].start = blocks[k].start
                    /\ entries[k].end = blocks[k].end

\* C24 (as claimed): for every block, the body reassemble_srt emits is the
\* block's translated_content when the block has one and the original
\* content otherwise, and it is never empty.
C24_BodyIsTranslationOrOriginal ==
    \A d \in Jobs : \A c \in DOMAIN output[d] :
        LET blocks == Concatenated(sub[d])
            entries == output[d][c]
        IN \A k \in DOMAIN blocks :
              /\ k \in DOMAIN entries
              /\ entries[k].content # ""
              /\ entries[k].content =
                    IF blocks[k].translated_content \in {None, ""}
                    THEN blocks[k].content
                    ELSE blocks[k].translated_content

\* C25 (as claimed): reassembling a parsed document in which no block has a
\* translated_content gives entries with the indices, timings and text of
\* the parsed blocks, in their order.
C25_UntranslatedRoundTrip ==
    \A d \in Jobs : \A c \in DOMAIN output[d] :
        (\A i \in DOMAIN sub[d] : \A b \in DOMAIN sub[d][i] :
            sub[d][i][b].translated_content = None)
        => output[d][c] = [k \in DOMAIN upload[d] |->
                             [index |-> upload[d][k].index, start |-> upload[d][k].start,
                              end |-> upload[d][k].end, content |-> upload[d][k].content]]

InvalidInput(d) ==
    \/ request[d].filename \notin SrtNames
    \/ request[d].content \in {"none", "oversized"}
    \/ request[d].target_lang \notin TargetLanguages
    \/ doc[d].speed_mode \notin AllowedSpeedModes

\* C27: a request whose file has a bad shape (wrong extension, empty, too
\* large), whose target language is not one of TARGET_LANGUAGES or whose
\* speed mode is not mock, fast or normal never reaches a provider: no
\* context detection attempt is made, no system prompt is built, no chunk
\* task is created and no chunk request is sent for it. Once it is rejected
\* it stays rejected, with an error as its result, and nothing more is run
\* for it.
C27_InvalidInputNeverReachesProvider ==
    \A d \in Jobs :
        InvalidInput(d) =>
            /\ doc[d].pc \in {"received", "uploaded", "rejected"}
            /\ context[d] = [attempt |-> 0, value |-> None]
            /\ prompt[d] = <<>>
            /\ task[d] = <<>>
            /\ sub[d] = <<>>
            /\ ~\E c \in calls : c.doc = d
            /\ doc[d].pc = "rejected" =>
                  /\ doc[d].result \in {"HTTP 400", "ValidationError"}
                  /\ ~ENABLED RequestNext

\* A well-named file in an allowed language was rejected for its speed mode.
C27_Witness ==
    \E d \in Jobs :
        /\ request[d].filename \in SrtNames
        /\ request[d].target_lang \in TargetLanguages
        /\ request[d].content = "subtitles"
        /\ doc[d].speed_mode \notin AllowedSpeedModes
        /\ doc[d].pc = "rejected"


CheckLimitCalled(s) == limiter'.op = "check_limit" /\ limiter'.session = s

OthersUnchanged(s) ==
    \A t \in Sessions \ {s} :
        /\ t \in limiter'.keys <=> t \in limiter.keys
        /\ limiter'.counts[t] = limiter.counts[t]

\* C28: a call check_limit(s) made while the count of s is below file_limit
\* (0 for a session with no entry) is accepted, leaves s with an entry whose
\* count is the old count plus exactly 1, and leaves the entry and the count
\* of every other session as they were.
C28_AcceptedCallCountsOnce ==
    [][\A s \in Sessions :
          (CheckLimitCalled(s) /\ SessionCount(limiter, s) < limiter.file_limit) =>
              /\ limiter'.status = "ok"
              /\ s \in limiter'.keys
              /\ limiter'.counts[s] = SessionCount(limiter, s) + 1
              /\ OthersUnchanged(s)]_allvars

\* A second file of a session was accepted while another session had
\* counted a file as well.
C28_Witness ==
    /\ limiter.op = "check_limit"
    /\ limiter.status = "ok"
    /\ limiter.counts[limiter.session] = 2
    /\ \E t \in Sessions \ {limiter.session} : SessionCount(limiter, t) = 1

C30_ResetSessionStartsOver ==
    /\ [](\A s \in limiter.reset :
             limiter.accepted[s] = Min(limiter.checks[s], limiter.file_limit))
    /\ [][\A s \in Sessions :
             /\ (limiter'.op = "reset_session" /\ limiter'.session = s) =>
                   /\ s \in limiter'.keys
                   /\ limiter'.counts[s] = 0
                   /\ OthersUnchanged(s)
             /\ (limiter'.op = "get_session_count" /\ limiter'.session = s) =>
                   /\ limiter'.returned = SessionCount(limiter, s)
                   /\ limiter'.keys = limiter.keys
                   /\ limiter'.counts = limiter.counts
                   /\ s \notin limiter.keys => limiter'.returned = 0
                   /\ (limiter.op = "reset_session" /\ limiter.session = s) =>
                         limiter'.returned = 0]_allvars

\* A session that had reached a limit of two files was reset and then had
\* two more files accepted, while the other session never got an entry.
C30_Witness ==
    /\ limiter.file_limit = 2
    /\ limiter.op = "check_limit"
    /\ limiter.status = "ok"
    /\ limiter.session \in limiter.reset
    /\ limiter.before[limiter.session] = 2
    /\ limiter.accepted[limiter.session] = 2
    /\ limiter.counts[limiter.session] = 2
    /\ limiter.keys = {limiter.session}


DependencyCalled == limiter'.op = "check_session_file_limit"

C32_OneRateLimiter ==
    [][limiter.instance # 0 =>
          /\ limiter'.instance = limiter.instance
          /\ limiter'.file_limit = limiter.file_limit
          /\ limiter'.op = "get_rate_limiter" =>
                /\ limiter'.returned = limiter.instance
                /\ limiter'.keys = limiter.keys
                /\ limiter'.counts = limiter.counts]_allvars

\* get_rate_limiter was called with a limit of three files while the
\* limiter made for one file had counted a file for a session.
C32_Witness ==
    /\ limiter.op = "get_rate_limiter"
    /\ limiter.passed = 3
    /\ limiter.file_limit = 1
    /\ limiter.returned = 1
    /\ \E s \in Sessions : SessionCount(limiter, s) = 1


\* C39: in every state reached from an empty RateLimiter by check_limit,
\* get_session_count and reset_session calls, each session's count lies
\* between 0 and file_limit, and the number of check_limit calls accepted
\* for a session since its last reset (or since the start) is at most
\* file_limit.
C39_CountsWithinLimit ==
    \A s \in Sessions :
        /\ limiter.keys \subseteq Sessions
        /\ SessionCount(limiter, s) >= 0
        /\ SessionCount(limiter, s) <= limiter.file_limit
        /\ limiter.accepted[s] <= limiter.file_limit

\* After its reset a session used up a limit of two files and was refused
\* the third one.
C39_Witness ==
    /\ limiter.file_limit = 2
    /\ limiter.op = "check_limit"
    /\ limiter.status = "HTTP 429"
    /\ limiter.session \in limiter.reset
    /\ limiter.accepted[limiter.session] = 2
    /\ limiter.checks[limiter.session] = 3


Waiting == {t \in AllTasks : t.pc = "acquiring"}

\* C33: when no cancellation occurs, every provider call comes back and the
\* event loop runs what is due, every chunk task that was created reaches a
\* terminal state and every translate_all_chunks call that was started
\* returns its statistics, for two documents sharing a limiter of any size
\* from 1 up; and no task waits for a slot while no slot is free and no
\* attempt is there to free one.
C33_EveryTaskEnds ==
    /\ \A d \in Docs :
          (doc[d].pc = "translating") ~> (doc[d].pc \in {"returned", "reassembled"})
    /\ \A d \in Docs : \A i \in 1..TraceMaxBlocks :
          (i \in DOMAIN task[d]) ~> (i \in DOMAIN task[d] /\ Terminal(task[d][i]))
    /\ [](Waiting # {} => (semaphore > 0 \/ InFlight # {}))

\* Both documents, one of them of two chunks, came back through a limiter
\* of one slot, and a chunk of each needed a second attempt.
C33_Witness ==
    /\ settings.MAX_CONCURRENT_TRANSLATIONS = 1
    /\ \E d \in Docs : Len(task[d]) = 2
    /\ \A d \in Docs :
          /\ doc[d].pc \in {"returned", "reassembled"}
          /\ \E i \in DOMAIN task[d] : task[d][i].current_attempt >= 2


Sleeping == {t \in AllTasks : t.pc = "sleeping"}

\* C34: the step in which an attempt of a chunk fails and its task starts
\* the retry delay gives the attempt's slot back; the task takes a slot
\* again, or queues for one, only when the next attempt starts; so while
\* tasks wait out their delay and no attempt runs, every slot of the limiter
\* is free for the chunks of either document.
C34_NoSlotDuringRetryDelay ==
    /\ [](Sleeping # {} /\ InFlight = {} =>
             semaphore = settings.MAX_CONCURRENT_TRANSLATIONS)
    /\ [][\A d \in Docs : \A i \in DOMAIN task[d] :
             /\ (task[d][i].pc = "working" /\ task'[d][i].pc = "sleeping") =>
                   semaphore' = semaphore + 1
             /\ (task[d][i].pc = "sleeping" /\ task'[d][i].pc # "sleeping") =>
                   \/ task'[d][i].pc = "working" /\ semaphore' = semaphore - 1
                   \/ task'[d][i].pc = "acquiring" /\ semaphore = 0 /\ semaphore' = 0
                   \/ task'[d][i].pc = "done" /\ semaphore' = semaphore]_allvars

\* With a limiter of one slot, a chunk of one document waits out its retry
\* delay while a chunk of the other document runs its second attempt.
C34_Witness ==
    /\ settings.MAX_CONCURRENT_TRANSLATIONS = 1
    /\ \E d \in Docs : \E e \in Docs \ {d} :
          /\ \E i \in DOMAIN task[d] :
                task[d][i].pc = "sleeping" /\ task[d][i].current_attempt = 1
          /\ \E j \in DOMAIN task[e] :
                task[e][j].pc = "working" /\ task[e][j].current_attempt = 2


SumOfEntries(st, field) ==
    SumSeq([k \in RequestIds |-> IF k \in st.keys THEN st.entry[k][field] ELSE 0])

StoredStats(st) == <<st.counter, st.keys, st.entry, st.total>>

\* C38: when no request id is handed to update_parsing_stats more than once
\* and none to update_translation_stats more than once, in every state of
\* the store total_files_processed is the number of file entries, each
\* other total is the sum of its field over the entries, and the ids that
\* create_file_entry returned are pairwise distinct and are exactly the
\* entries' keys; and an update or a completion for an id without an entry
\* changes nothing in the store.
C38_TotalsAreSums ==
    /\ [](LET st == backend.stats
          IN /\ st.total.files = Cardinality(st.keys)
             /\ st.total.blocks = SumOfEntries(st, "total_blocks")
             /\ st.total.chunks = SumOfEntries(st, "total_chunks")
             /\ st.total.failed_attempts = SumOfEntries(st, "translation_failed_attempts")
             /\ st.total.chunks_with_failures = SumOfEntries(st, "chunks_with_failures")
             /\ \A a, b \in DOMAIN st.issued : a # b => st.issued[a] # st.issued[b]
             /\ {st.issued[a] : a \in DOMAIN st.issued} = st.keys)
    /\ [][LET st == backend.stats
          IN \A k \in RequestIds \ st.keys :
                (\/ k \in backend'.stats.parsing_calls \ st.parsing_calls
                 \/ k \in backend'.stats.translation_calls \ st.translation_calls)
                => StoredStats(backend'.stats) = StoredStats(st)]_allvars

\* Two requests have entries, each parsed into one chunk of two blocks; the
\* first needed two retries and the second none.
C38_Witness ==
    LET st == backend.stats
    IN /\ st.keys = {1, 2}
       /\ st.parsing_calls = {1, 2}
       /\ st.translation_calls = {1, 2}
       /\ st.entry[1].total_blocks = 2 /\ st.entry[2].total_blocks = 2
       /\ st.entry[1].translation_failed_attempts = 2
       /\ st.entry[2].translation_failed_attempts = 0
       /\ st.total.chunks = 2
       /\ st.total.failed_attempts = 2
       /\ st.total.blocks = 4

\* A call of the route changed what the job routes last answered.
RouteCalled(route, job_id) ==
    /\ backend'.response # backend.response
    /\ backend'.response.route = route
    /\ backend'.response.job = job_id

\* C35: once a job's status is COMPLETED, FAILED or CANCELLED no step of its
\* background task and no call of cancel_translation changes it to another
\* status, however the two interleave; and cancel_translation on a job in
\* one of these statuses answers HTTP 400 and changes nothing of the jobs,
\* their tasks, the output files or the statistics.
C35_TerminalStatusesAbsorbing ==
    [][\A job_id \in backend.job_keys :
          backend.job[job_id].status \in TerminalStatuses =>
             /\ backend'.job[job_id].status = backend.job[job_id].status
             /\ RouteCalled("cancel", job_id) =>
                   /\ backend'.response.code = 400
                   /\ backend' = [backend EXCEPT !.response = backend'.response]]_allvars

\* Job 1 was cancelled while its task was waiting for parse_srt, the task
\* has ended in its cancellation handler, and a second cancel_translation
\* was rejected; job 2 has completed.
C35_Witness ==
    /\ backend.job[1].status = "cancelled"
    /\ backend.job[1].request_id # 0
    /\ backend.work[1].pc = "done"
    /\ backend.stats.entry[backend.job[1].request_id].total_chunks = 0
    /\ backend.response = [route |-> "cancel", job |-> 1, code |-> 400, owner |-> 0]
    /\ backend.job[2].status = "completed"

\* C36: a download_translation that succeeds is for a COMPLETED job and
\* returns the output file that this job wrote.
C36_DownloadReturnsOwnOutput ==
    (backend.response.route = "download" /\ backend.response.code = 200) =>
        /\ backend.job[backend.response.job].status = "completed"
        /\ backend.response.owner = backend.response.job

\* The request of a worker has ended.
Ended(w) == backend.work[w].kind # None /\ backend.work[w].pc = "done"

\* The statistics entry of a request is closed.
Finalised(request_id) ==
    /\ backend.stats.entry[request_id].status \in FinalStatuses
    /\ backend.stats.entry[request_id].ended

====
